---- MODULE Spec2Model ----
(***************************************************************************)
(* Model of inbox-copilot's incremental synchronisation run                *)
(* (src/inbox_copilot/app/run.py: run_once) together with the cursor store *)
(* (storage/state.py) and the mailbox provider it talks to.                *)
(*                                                                         *)
(* Message ids are modelled as the integers 1..NumMsgs; they stand for     *)
(* distinct provider id strings whose string order is the integer order.   *)
(* An Optional value is a sequence: <<>> is None, <<x>> is the value x.    *)
(***************************************************************************)
EXTENDS Integers, Sequences, FiniteSets, TLC

\* ------------------------------------------------------------------ bounds
NumMsgs == 2
MaxTick == 2
MaxRuns == 3

\* ------------------------------------------------------- program constants
max_results == 500
bootstrap_days == 60
MsPerSecond == 1000

\* ------------------------------------------------------------------ values
None == <<>>
Some(x) == <<x>>

MsgIds == 1..NumMsgs
\* Provider timestamps in milliseconds, half a second apart: 1000 and 1500 lie in the
\* same second, 2000 in the next.
Timestamps == {1000 + 500 * k : k \in 0..(MaxTick - 1)}

OwnAddress == "me@x.com"
FromValues == {"bob@x.com", "Me <ME@X.COM>"}
LabelIdValues == {<<"INBOX">>, <<"DRAFT">>}

\* A raw provider message: what users().messages().get() returns.
RawMessages == [internalDate : Timestamps, labelIds : LabelIdValues, From : FromValues]

VARIABLES
    mailbox,        \* provider: message id -> None (no such message) or Some(raw message)
    deleted,        \* provider: ids of messages that existed and were deleted
    labelled,       \* provider: ids of messages a label was applied to
    file,           \* the cursor file: None (no file) or Some(JSON object)
    pc,             \* position of run_once
    st,             \* run_once: the AppState loaded at run start
    own_email,      \* run_once: normalized own address
    message_ids,    \* run_once: the listed candidate ids, in listing order
    loaded_mails,   \* run_once: the NormalizedEmail records built so far
    eligible_mails, \* run_once: the records that passed the eligibility filter
    fetched_idx,    \* run_once: number of candidate ids the load loop has handled
    index,          \* run_once: number of eligible mails the process loop has handled
    processed, skipped_deleted, errors, seen, latest_ts, latest_ids_at_ts,
    result,         \* what run_once gave its caller: None while it runs, then
                    \* Some([kind |-> "summary", ...]) or Some([kind |-> "raised", ...])
    \* ---- history (not program state)
    file0,          \* the cursor file as it was when the run started
    load_log,       \* outcome of each fetch of this run, aligned with message_ids
    proc_log,       \* outcome of each process_message of this run, aligned with eligible_mails
    attempted,      \* the mails handed to process_message in this run, in call order
    writes,         \* number of save_state calls of this run
    times_processed,\* message id -> number of runs that counted it in processed
    prev,           \* the last completed run, when every fetch and every message of it succeeded
    started,        \* number of runs started
    query           \* the query of this run's listing: None until the listing returned

\* The per-message pipeline taken on its own: what process_message calls
\* (analyze_email, actions_from_analysis, ActionExecutor.run).
VARIABLES
    email,          \* the NormalizedEmail handed to analyze_email: None, or Some(record)
    analysis,       \* what analyze_email gave: None, or Some(EmailAnalysis or exception)
    actions,        \* the list actions_from_analysis returned / ActionExecutor.run was given
    executor,       \* the ActionExecutor: handlers, dry_run, continue_on_error
    position,       \* ActionExecutor.run: number of actions its loop has handled
    handled,        \* history: the handler.handle calls made, in order, with their outcome
    mailbox_calls,  \* history: the GmailClient calls the handlers completed, in order
    step            \* position of the pipeline

\* The reply subject of a draft (backend/app/api/drafts.py: _as_reply_subject).
VARIABLES
    original_subject, \* the subject string _as_reply_subject is given
    reply           \* history: the results of applying it, then applying it to its result

\* Body extraction taken on its own (parsing/parser.py: extract_body_from_payload).
VARIABLES
    payload,        \* the message payload extract_body_from_payload is given
    body            \* None until it was called, then Some(what the call gave)

\* The label cache of one GmailClient (gmail/client.py: get_or_create_label_id).
VARIABLES
    _label_cache,   \* label name -> None (no entry) or Some(label id)
    provider_labels,\* the provider's labels: name -> None (no such label) or Some(id)
    next_label_id,  \* the id the provider gives to the next label it creates
    connects,       \* number of connect() calls so far
    resolved,       \* history: the get_or_create_label_id calls since the last connect()
    created,        \* history: the names this client created since the last connect()
    obtained        \* history: the (name, id) pairs the provider sent since the last connect()

\* Draft creation from the interview files (backend/app/api/drafts.py:
\* create_drafts; scripts/create_drafts_from_interviews.py: main, process_file).
VARIABLES
    interviews,     \* logs/interviews: file name -> None (no file) or Some(status)
    markers,        \* the interview files that have a .draft.json marker
    provider_drafts,\* file name -> number of provider drafts created for it
    invocation,     \* None, or Some(the invocation in progress)
    invocations,    \* number of invocations started
    json_files,     \* history: the interview files the last invocation listed
    prev_json_files,\* history: those the invocation before it listed
    marked_at_start,\* history: the markers that existed when the last invocation started
    made            \* history: the files the last invocation created a draft for

\* The service (backend/app/api/run.py: run_endpoint; backend/app/status.py:
\* RunStatusStore; backend/app/api/drafts.py: create_drafts as a request).
VARIABLES
    recent_actions, \* run_status_store: the entries of recent_actions, first to last
    recent_errors,  \* run_status_store: the entries of recent_errors
    thread,         \* request thread -> where it is
    current,        \* request thread -> its local "current", the list it got from snapshot()
    run_st,         \* run request -> the AppState its run_once loaded
    entries,        \* number of the entry pushed last (entries are numbered as pushed)
    pushed,         \* history: every entry an update has stored, with its list
    saves           \* history: number of save_state calls completed

run_once_vars ==
    <<mailbox, deleted, labelled, file, pc, st, own_email, message_ids, loaded_mails,
      eligible_mails, fetched_idx, index, processed, skipped_deleted, errors, seen,
      latest_ts, latest_ids_at_ts, result, file0, load_log, proc_log, attempted,
      writes, times_processed, prev, started, query>>

pipeline == <<email, analysis, actions, executor, position, handled, mailbox_calls, step>>

drafts == <<original_subject, reply>>

parser == <<payload, body>>

label_cache ==
    <<_label_cache, provider_labels, next_label_id, connects, resolved, created, obtained>>

draft_files ==
    <<interviews, markers, provider_drafts, invocation, invocations, json_files,
      prev_json_files, marked_at_start, made>>

service ==
    <<recent_actions, recent_errors, thread, current, run_st, entries, pushed, saves>>

backend == <<parser, label_cache, draft_files, service>>

vars == <<run_once_vars, pipeline, drafts, backend>>

provider == <<mailbox, deleted, labelled>>
counters == <<processed, skipped_deleted, errors, seen, latest_ts, latest_ids_at_ts>>
lists == <<message_ids, loaded_mails, eligible_mails, fetched_idx, index>>
history == <<load_log, proc_log, attempted, times_processed, prev>>

\* ------------------------------------------------------------- pure helpers
Range(s) == {s[k] : k \in 1..Len(s)}

Max(S) == CHOOSE x \in S : \A y \in S : y <= x

Perms(S) == {f \in [1..Cardinality(S) -> S] : \A a, b \in 1..Cardinality(S) : f[a] = f[b] => a = b}

\* str.upper() on the label ids that occur.
Upper(s) ==
    CASE s = "draft" -> "DRAFT"
      [] s = "Draft" -> "DRAFT"
      [] s = "inbox" -> "INBOX"
      [] OTHER -> s

\* email.utils.parseaddr(value)[1].strip().lower() on the header values that occur.
_normalized_address(value) ==
    CASE value = "Me <ME@X.COM>" -> "me@x.com"
      [] value = "ME@x.com" -> "me@x.com"
      [] value = "me@x.com" -> "me@x.com"
      [] value = "bob@x.com" -> "bob@x.com"
      [] value = "Bob <bob@x.com>" -> "bob@x.com"
      [] OTHER -> ""

\* (m.internal_date_ms, m.message_id) tuple comparison.
KeyLess(a, b) ==
    \/ a.internal_date_ms < b.internal_date_ms
    \/ /\ a.internal_date_ms = b.internal_date_ms
       /\ a.message_id < b.message_id

RECURSIVE InsertSorted(_, _)
InsertSorted(s, m) ==
    IF s = <<>> THEN <<m>>
    ELSE IF KeyLess(m, Head(s)) THEN <<m>> \o s
    ELSE <<Head(s)>> \o InsertSorted(Tail(s), m)

\* Faulty variant of SortByKey: the batch stays in listing order.
SortByKey_listing_order(s) == s

RECURSIVE SortByKey(_)
SortByKey(s) ==
    IF s = <<>> THEN <<>> ELSE InsertSorted(SortByKey(SubSeq(s, 1, Len(s) - 1)), s[Len(s)])

\* sorted(set_of_ids) as a list.
RECURSIVE SortedIds(_)
SortedIds(S) ==
    IF S = {} THEN <<>>
    ELSE LET lo == CHOOSE x \in S : \A y \in S : x <= y
         IN <<lo>> \o SortedIds(S \ {lo})

\* ------------------------------------------------------------ cursor store
DefaultAppState ==
    [last_history_time |-> None, last_internal_date_ms |-> None,
     last_message_ids_at_latest_ts |-> <<>>, runs |-> 0]

\* dict.get(key) with a None default, for Optional-valued keys.
Get(data, key) == IF key \in DOMAIN data THEN data[key] ELSE None

\* "a or b" on Optional[str] values: None and the empty string are falsy.
OrElse(a, b) == IF a = None \/ a = Some("") THEN b ELSE a

\* Faulty variant of load_state: only the current key is read.
load_state_current_key_only(f) ==
    IF f = None THEN DefaultAppState
    ELSE LET data == f[1] IN
         [last_history_time |-> Get(data, "last_history_time"),
          last_internal_date_ms |-> Get(data, "last_internal_date_ms"),
          last_message_ids_at_latest_ts |-> Get(data, "last_message_ids_at_latest_ts"),
          runs |-> IF "runs" \in DOMAIN data THEN data.runs ELSE 0]

load_state(f) ==
    IF f = None THEN DefaultAppState
    ELSE LET data == f[1] IN
         [last_history_time |->
              OrElse(Get(data, "last_history_time"), Get(data, "last_history_TIME")),
          last_internal_date_ms |-> Get(data, "last_internal_date_ms"),
          last_message_ids_at_latest_ts |-> Get(data, "last_message_ids_at_latest_ts"),
          runs |-> IF "runs" \in DOMAIN data THEN data.runs ELSE 0]

\* json.dumps(asdict(state)): exactly the four dataclass fields.
save_state(state) ==
    Some([last_history_time |-> state.last_history_time,
          last_internal_date_ms |-> state.last_internal_date_ms,
          last_message_ids_at_latest_ts |-> state.last_message_ids_at_latest_ts,
          runs |-> state.runs])

\* A cursor file written by an earlier revision: legacy key, timestamp only.
LegacyFile(t) ==
    Some([last_history_TIME |-> Some("h1"), last_internal_date_ms |-> Some(t), runs |-> 1])

\* ------------------------------------------------------------------ queries
\* The search terms both queries end with.
Exclusions == {"-in:drafts", "-from:me"}

\* f"newer_than:{days}d -in:drafts -from:me"
_bootstrap_query(days) == [kind |-> "newer_than", days |-> days, terms |-> Exclusions]

\* Faulty variant of _incremental_query: the milliseconds are passed on as they are.
_incremental_query_in_ms(last_internal_date_ms) ==
    [kind |-> "after",
     epoch_seconds |-> IF last_internal_date_ms < 0 THEN 0 ELSE last_internal_date_ms,
     terms |-> Exclusions]

\* f"after:{epoch_seconds} -in:drafts -from:me". int(ms / 1000) truncates; ms is
\* never negative here, so it is the floor.
_incremental_query(last_internal_date_ms) ==
    [kind |-> "after",
     epoch_seconds |-> IF last_internal_date_ms \div MsPerSecond < 0 THEN 0
                       ELSE last_internal_date_ms \div MsPerSecond,
     terms |-> Exclusions]

\* The query run_once issues for a loaded state (run.py 195-214).
QueryFor(state) ==
    IF state.last_internal_date_ms = None THEN _bootstrap_query(bootstrap_days)
    ELSE LET cursor_ms == state.last_internal_date_ms[1] IN
         IF state.last_message_ids_at_latest_ts = <<>>
         THEN _incremental_query(cursor_ms + MsPerSecond)
         ELSE _incremental_query(cursor_ms)

\* What the provider takes for a draft and for a self-sent message.
IsDraftRaw(raw) == "DRAFT" \in {Upper(raw.labelIds[k]) : k \in 1..Len(raw.labelIds)}
IsFromMeRaw(raw) == _normalized_address(raw.From) = OwnAddress

\* Provider side of list_messages. A message the query certainly matches is listed;
\* a draft, a self-sent message or a message exactly on the second boundary may or
\* may not be; a message older than the bound never is.
MayList(q, raw) ==
    \/ q.kind = "newer_than"
    \/ q.kind = "after" /\ raw.internalDate >= q.epoch_seconds * MsPerSecond

MustList(q, raw) ==
    /\ q.kind = "after"
    /\ raw.internalDate > q.epoch_seconds * MsPerSecond
    /\ ~IsDraftRaw(raw)
    /\ ~IsFromMeRaw(raw)

Present == {m \in MsgIds : mailbox[m] # None}

Listings(q) ==
    LET may == {m \in Present : MayList(q, mailbox[m][1])}
        must == {m \in Present : MustList(q, mailbox[m][1])}
    IN {C \in SUBSET may :
            /\ Cardinality(C) <= max_results
            /\ (must \subseteq C \/ Cardinality(C) = max_results)}

\* ------------------------------------------------------------- normalizer
build_mail(message_id, raw) ==
    [message_id |-> message_id,
     from_email |-> raw.From,
     internal_date_ms |-> raw.internalDate,
     label_ids |-> raw.labelIds]

\* --------------------------------------------------------- eligibility filter
\* Faulty variant of IsEligible: everything at the cursor timestamp is dropped, the
\* id-set is not consulted.
IsEligible_drops_whole_timestamp(state, already, own, mail) ==
    /\ \/ state.last_internal_date_ms = None
       \/ ~(mail.internal_date_ms <= state.last_internal_date_ms[1])
    /\ ~("DRAFT" \in {Upper(mail.label_ids[k]) : k \in 1..Len(mail.label_ids)})
    /\ ~(own # "" /\ _normalized_address(mail.from_email) = own)

\* Faulty variant of IsEligible: the draft test is missing.
IsEligible_keeps_drafts(state, already, own, mail) ==
    /\ \/ state.last_internal_date_ms = None
       \/ /\ ~(mail.internal_date_ms < state.last_internal_date_ms[1])
          /\ ~(/\ mail.internal_date_ms = state.last_internal_date_ms[1]
               /\ mail.message_id \in already)
    /\ ~(own # "" /\ _normalized_address(mail.from_email) = own)

\* Faulty variant of IsEligible: mails older than the cursor are not dropped.
IsEligible_admits_older(state, already, own, mail) ==
    /\ \/ state.last_internal_date_ms = None
       \/ ~(/\ mail.internal_date_ms = state.last_internal_date_ms[1]
            /\ mail.message_id \in already)
    /\ ~("DRAFT" \in {Upper(mail.label_ids[k]) : k \in 1..Len(mail.label_ids)})
    /\ ~(own # "" /\ _normalized_address(mail.from_email) = own)

IsEligible(state, already, own, mail) ==
    /\ \/ state.last_internal_date_ms = None
       \/ /\ ~(mail.internal_date_ms < state.last_internal_date_ms[1])
          /\ ~(/\ mail.internal_date_ms = state.last_internal_date_ms[1]
               /\ mail.message_id \in already)
    /\ ~("DRAFT" \in {Upper(mail.label_ids[k]) : k \in 1..Len(mail.label_ids)})
    /\ ~(own # "" /\ _normalized_address(mail.from_email) = own)

\* run.py 182
already_processed_at_latest_ts == Range(st.last_message_ids_at_latest_ts)

\* -------------------------------------------------------------------- Init
\* No completed run to compare with yet.
NoPrev == [clean |-> FALSE, cands |-> {}, own |-> ""]

InitRunOnce ==
    /\ mailbox = [m \in MsgIds |-> None]
    /\ deleted = {}
    /\ labelled = {}
    /\ file \in {None} \cup {LegacyFile(t) : t \in Timestamps}
    /\ pc = "idle"
    /\ st = DefaultAppState
    /\ own_email = ""
    /\ message_ids = <<>>
    /\ loaded_mails = <<>>
    /\ eligible_mails = <<>>
    /\ fetched_idx = 0
    /\ index = 0
    /\ processed = 0
    /\ skipped_deleted = 0
    /\ errors = 0
    /\ seen = 0
    /\ latest_ts = None
    /\ latest_ids_at_ts = {}
    /\ result = None
    /\ file0 = file
    /\ load_log = <<>>
    /\ proc_log = <<>>
    /\ attempted = <<>>
    /\ writes = 0
    /\ times_processed = [m \in MsgIds |-> 0]
    /\ prev = NoPrev
    /\ started = 0
    /\ query = None

\* rules/core.py 15-20
ActionType == {"print", "add_label", "archive", "remove_label", "analyze_application"}

\* actions/executor.py 16-20: the dataclass with its defaults.
ActionExecutor(handlers, dry_run, continue_on_error) ==
    [handlers |-> handlers, dry_run |-> dry_run, continue_on_error |-> continue_on_error]

\* actions/executor.py 47-55: the handlers dict is given by the types it has a handler
\* for; continue_on_error keeps its default.
default_executor(dry_run) == ActionExecutor({"print", "add_label", "archive"}, dry_run, TRUE)

\* No message is in the pipeline.
InitPipeline ==
    /\ email = None
    /\ analysis = None
    /\ actions = <<>>
    /\ executor = default_executor(FALSE)
    /\ position = 0
    /\ handled = <<>>
    /\ mailbox_calls = <<>>
    /\ step = "idle"

\* No draft subject is being built.
InitDrafts ==
    /\ original_subject = <<>>
    /\ reply = <<>>

\* Nothing of the service, the label cache or the parser has been called.
\* The label names that occur: a system label every mailbox has, a name with an
\* entry in LABEL_COLORS and a name without one.
LabelKeys == {"INBOX", "Security", "Misc"}

\* client.py 36: a new client has an empty cache.
EmptyCache == [n \in LabelKeys |-> None]

InitLabelCache ==
    /\ _label_cache = EmptyCache
    /\ provider_labels = [EmptyCache EXCEPT !["INBOX"] = Some(0)]
    /\ next_label_id = 1
    /\ connects = 0
    /\ resolved = <<>>
    /\ created = <<>>
    /\ obtained = {}

\* The interview file names that occur, in path order.
FileOrder == <<"a.json", "b.json">>
Files == {FileOrder[k] : k \in 1..Len(FileOrder)}

\* No interview file was written yet, no draft was created.
InitDraftFiles ==
    /\ interviews = [f \in Files |-> None]
    /\ markers = {}
    /\ provider_drafts = [f \in Files |-> 0]
    /\ invocation = None
    /\ invocations = 0
    /\ json_files = {}
    /\ prev_json_files = {}
    /\ marked_at_start = {}
    /\ made = {}

\* The requests that may be in progress at once: two POST /run, one POST
\* /drafts/create.
Runs == {"run1", "run2"}
Threads == Runs \cup {"drafts"}

\* status.py 22-25: the store of a service that has just started.
InitService ==
    /\ recent_actions = <<>>
    /\ recent_errors = <<>>
    /\ thread = [t \in Threads |-> "idle"]
    /\ current = [t \in Threads |-> <<>>]
    /\ run_st = [r \in Runs |-> DefaultAppState]
    /\ entries = 0
    /\ pushed = {}
    /\ saves = 0

InitBackend ==
    /\ payload = None
    /\ body = None
    /\ InitLabelCache
    /\ InitDraftFiles
    /\ InitService

Init == InitRunOnce /\ InitPipeline /\ InitDrafts /\ InitBackend

\* ------------------------------------------------------------ environment
\* A new message arrives in the mailbox. Arrivals are taken between runs: a run sees
\* the mailbox only through its one listing, so an arrival during a run acts like one
\* just before or just after it.
Deliver ==
    /\ pc = "idle"
    /\ \E m \in MsgIds \ (Present \cup deleted), raw \in RawMessages :
           mailbox' = [mailbox EXCEPT ![m] = Some(raw)]
    /\ UNCHANGED <<deleted, labelled, file, pc, st, own_email, lists, counters, result,
                   file0, writes, history, started, query, pipeline, drafts, backend>>

\* ------------------------------------------------------------------ run_once
\* run.py 171-184: initialise the counters and load the state.
StartRun ==
    /\ pc = "idle"
    /\ started < MaxRuns
    /\ started' = started + 1
    /\ st' = load_state(file)
    /\ file0' = file
    /\ own_email' = ""
    /\ message_ids' = <<>>
    /\ loaded_mails' = <<>>
    /\ eligible_mails' = <<>>
    /\ fetched_idx' = 0
    /\ index' = 0
    /\ processed' = 0
    /\ skipped_deleted' = 0
    /\ errors' = 0
    /\ seen' = 0
    /\ latest_ts' = None
    /\ latest_ids_at_ts' = {}
    /\ result' = None
    /\ load_log' = <<>>
    /\ proc_log' = <<>>
    /\ attempted' = <<>>
    /\ writes' = 0
    /\ query' = None
    /\ pc' = "load_gmail_config"
    /\ UNCHANGED <<provider, file, times_processed, prev, pipeline, drafts, backend>>

\* Faulty variant of Raise: the state is saved on the way out (a save in a finally).
Raise_after_saving ==
    /\ pc' = "error"
    /\ result' = Some([kind |-> "raised", at |-> pc])
    /\ file' = save_state([st EXCEPT !.runs = @ + 1])
    /\ writes' = writes + 1
    /\ UNCHANGED <<provider, st, own_email, lists, counters, file0, history, started, query,
                   pipeline, drafts, backend>>

\* run.py 186-214: nothing catches an exception of the set-up, so it leaves run_once
\* (and run_endpoint re-raises it, backend/app/api/run.py 55-57).
Raise ==
    /\ pc' = "error"
    /\ result' = Some([kind |-> "raised", at |-> pc])
    /\ UNCHANGED <<provider, file, st, own_email, lists, counters, file0, writes, history,
                   started, query, pipeline, drafts, backend>>

Proceed(next) ==
    /\ pc' = next
    /\ UNCHANGED <<provider, file, st, own_email, lists, counters, result, file0, writes,
                   history, started, query, pipeline, drafts, backend>>

\* run.py 188 / 30-43
LoadGmailConfig ==
    /\ pc = "load_gmail_config"
    /\ \E credentials_exist \in BOOLEAN :
           IF credentials_exist THEN Proceed("connect") ELSE Raise

\* run.py 189-190
Connect ==
    /\ pc = "connect"
    /\ \E ok \in BOOLEAN : IF ok THEN Proceed("get_profile") ELSE Raise

\* run.py 191: the profile has an emailAddress, has none, or the call raises.
GetProfile ==
    /\ pc = "get_profile"
    /\ \E outcome \in {"address", "no_address", "raise"} :
           IF outcome = "raise" THEN Raise
           ELSE /\ own_email' = _normalized_address(
                                    IF outcome = "address" THEN "ME@x.com" ELSE "")
                /\ pc' = "list_messages"
                /\ UNCHANGED <<provider, file, st, lists, counters, result, file0, writes,
                               history, started, query, pipeline, drafts, backend>>

\* run.py 195-216
ListMessages ==
    /\ pc = "list_messages"
    /\ \/ Raise
       \/ \E C \in Listings(QueryFor(st)) : \E order \in Perms(C) :
              /\ message_ids' = order
              /\ query' = Some(QueryFor(st))
              /\ pc' = "load_messages"
              /\ UNCHANGED <<provider, file, st, own_email, loaded_mails, eligible_mails,
                             fetched_idx, index, counters, result, file0, writes, history,
                             started, pipeline, drafts, backend>>

\* run.py 231-252: one iteration of the load loop. The fetch returns the message
\* ("ok"), or reports 404 because the message was deleted after the listing
\* ("not_found"), or returns a payload with a header entry that lacks its "name" or
\* "value" key, which build_mail reads with h["name"] ("malformed_key"), or fails in
\* any other way: another HTTP error, an internalDate that is no number, a body that
\* is no base64 ("other_error").
LoadOutcomes == {"ok", "not_found", "malformed_key", "other_error"}

\* The exception that reaches the load loop, by fetch outcome (client.py 91-102,
\* run.py 79-88).
LoadException(outcome) ==
    CASE outcome = "ok" -> "none"
      [] outcome = "not_found" -> "KeyError"
      [] outcome = "malformed_key" -> "KeyError"
      [] outcome = "other_error" -> "Exception"

\* run.py 236-241: which counter an exception of the load loop increments.
\* Faulty variant of ErrorsAfterLoad: a missing message counts as an error too.
ErrorsAfterLoad_counts_missing(exc, n) == IF exc # "none" THEN n + 1 ELSE n

SkippedAfterLoad(exc, n) == IF exc = "KeyError" THEN n + 1 ELSE n
ErrorsAfterLoad(exc, n) == IF exc \notin {"none", "KeyError"} THEN n + 1 ELSE n

\* Faulty variant of PcAfterLoad: only the missing-message case is caught, any other
\* exception of a fetch leaves the loop.
PcAfterLoad_abort(exc) == IF exc = "Exception" THEN "error" ELSE "load_messages"

\* run.py 233-252: both except clauses end the iteration, none ends the loop.
PcAfterLoad(exc) == "load_messages"

LoadMessage ==
    /\ pc = "load_messages"
    /\ fetched_idx < Len(message_ids)
    /\ LET mid == message_ids[fetched_idx + 1] IN
       \E outcome \in LoadOutcomes :
           /\ IF outcome = "not_found"
              THEN /\ mailbox' = [mailbox EXCEPT ![mid] = None]
                   /\ deleted' = deleted \cup {mid}
              ELSE /\ mailbox[mid] # None
                   /\ UNCHANGED <<mailbox, deleted>>
           /\ loaded_mails' = IF outcome = "ok"
                              THEN Append(loaded_mails, build_mail(mid, mailbox[mid][1]))
                              ELSE loaded_mails
           /\ skipped_deleted' = SkippedAfterLoad(LoadException(outcome), skipped_deleted)
           /\ errors' = ErrorsAfterLoad(LoadException(outcome), errors)
           /\ load_log' = Append(load_log, outcome)
           /\ pc' = PcAfterLoad(LoadException(outcome))
    /\ fetched_idx' = fetched_idx + 1
    /\ UNCHANGED <<labelled, file, st, own_email, message_ids, eligible_mails, index,
                   processed, seen, latest_ts, latest_ids_at_ts, result, file0, proc_log,
                   attempted, writes, times_processed, prev, started, query, pipeline,
                   drafts, backend>>

\* Faulty variant of SortLoaded: the batch is sorted and handed on as soon as one
\* mail is loaded, the remaining candidates are not waited for.
SortLoaded_streaming ==
    /\ pc = "load_messages"
    /\ fetched_idx = Len(message_ids) \/ loaded_mails # <<>>
    /\ loaded_mails' = SortByKey(loaded_mails)
    /\ pc' = "filter"
    /\ UNCHANGED <<provider, file, st, own_email, message_ids, eligible_mails, fetched_idx,
                   index, counters, result, file0, writes, history, started, query, pipeline,
                   drafts, backend>>

\* run.py 255: the load loop is over; sort the batch.
SortLoaded ==
    /\ pc = "load_messages"
    /\ fetched_idx = Len(message_ids)
    /\ loaded_mails' = SortByKey(loaded_mails)
    /\ pc' = "filter"
    /\ UNCHANGED <<provider, file, st, own_email, message_ids, eligible_mails, fetched_idx,
                   index, counters, result, file0, writes, history, started, query, pipeline,
                   drafts, backend>>

\* run.py 258-276
FilterEligible ==
    /\ pc = "filter"
    /\ LET Keep(mail) == IsEligible(st, already_processed_at_latest_ts, own_email, mail)
       IN eligible_mails' = SelectSeq(loaded_mails, Keep)
    /\ seen' = Len(eligible_mails')
    /\ pc' = "process"
    /\ UNCHANGED <<provider, file, st, own_email, message_ids, loaded_mails, fetched_idx,
                   index, processed, skipped_deleted, errors, latest_ts, latest_ids_at_ts,
                   result, file0, writes, history, started, query, pipeline, drafts, backend>>

\* run.py 306-312: the working (latest_ts, latest_ids_at_ts) pair after a success.
AdvanceLatest(ts_now, ids_now, mail) ==
    IF ts_now = None \/ mail.internal_date_ms > ts_now[1]
    THEN <<Some(mail.internal_date_ms), {mail.message_id}>>
    ELSE IF mail.internal_date_ms = ts_now[1]
    THEN <<ts_now, ids_now \cup {mail.message_id}>>
    ELSE <<ts_now, ids_now>>

\* run.py 292-337: one iteration of the process loop. process_message returns with
\* every action applied ("ok"), returns although an action failed inside the executor
\* (executor.py 36-44 swallows it: "action_failed"), or raises ("raise"). Which of
\* the three a mail gets is decided inside analyze_email, actions_from_analysis and
\* ActionExecutor.run, which are modelled on their own further down (SpecClassify,
\* SpecPolicy, SpecExecutor); for the run it is an open choice.
ProcessOutcomes == {"ok", "action_failed", "raise"}

\* Faulty variant of ErrorsAfterProcess: the exception is caught and not counted.
ErrorsAfterProcess_uncounted(outcome, n) == n

\* run.py 314-315: an exception of process_message is counted ...
ErrorsAfterProcess(outcome, n) == IF outcome = "raise" THEN n + 1 ELSE n

\* Faulty variant of PcAfterProcess: the first failure ends the run.
PcAfterProcess_abort(outcome) == IF outcome = "raise" THEN "error" ELSE "process"

\* ... and the loop goes on with the next eligible mail (run.py 292, 314-337).
PcAfterProcess(outcome) == "process"

ProcessMessage ==
    /\ pc = "process"
    /\ index < Len(eligible_mails)
    /\ LET mail == eligible_mails[index + 1] IN
       \E outcome \in ProcessOutcomes :
           /\ proc_log' = Append(proc_log, outcome)
           /\ attempted' = Append(attempted, mail)
           /\ labelled' = IF outcome = "ok" THEN labelled \cup {mail.message_id} ELSE labelled
           /\ errors' = ErrorsAfterProcess(outcome, errors)
           /\ pc' = PcAfterProcess(outcome)
           /\ IF outcome = "raise"
              THEN UNCHANGED <<processed, latest_ts, latest_ids_at_ts, times_processed>>
              ELSE /\ processed' = processed + 1
                   /\ latest_ts' = AdvanceLatest(latest_ts, latest_ids_at_ts, mail)[1]
                   /\ latest_ids_at_ts' = AdvanceLatest(latest_ts, latest_ids_at_ts, mail)[2]
                   /\ times_processed' =
                          [times_processed EXCEPT ![mail.message_id] = @ + 1]
    /\ index' = index + 1
    /\ UNCHANGED <<mailbox, deleted, file, st, own_email, message_ids, loaded_mails,
                   eligible_mails, fetched_idx, skipped_deleted, seen, result, file0,
                   load_log, writes, prev, started, query, pipeline, drafts, backend>>

\* Faulty variant of StateToSave: the working pair is stored even when it is empty.
StateToSave_unconditional(state, ts_now, ids_now) ==
    [state EXCEPT !.last_internal_date_ms = ts_now,
                  !.last_message_ids_at_latest_ts = SortedIds(ids_now),
                  !.runs = @ + 1]

\* Faulty variant of StateToSave: the run is counted only when the cursor moves.
StateToSave_counts_moving_runs(state, ts_now, ids_now) ==
    IF ts_now # None
    THEN [state EXCEPT !.last_internal_date_ms = ts_now,
                       !.last_message_ids_at_latest_ts = SortedIds(ids_now),
                       !.runs = @ + 1]
    ELSE state

\* run.py 341-344: the state object that is saved.
StateToSave(state, ts_now, ids_now) ==
    IF ts_now # None
    THEN [state EXCEPT !.last_internal_date_ms = ts_now,
                       !.last_message_ids_at_latest_ts = SortedIds(ids_now),
                       !.runs = @ + 1]
    ELSE [state EXCEPT !.runs = @ + 1]

RunSummary ==
    [processed |-> processed, skipped_deleted |-> skipped_deleted, errors |-> errors,
     latest_internal_date_ms |-> latest_ts, message_ids_seen |-> seen]

\* Faulty variant of SaveState: the cursor is saved inside the process loop.
SaveState_per_message ==
    /\ pc = "process"
    /\ writes < 2
    /\ st' = StateToSave(st, latest_ts, latest_ids_at_ts)
    /\ file' = save_state(st')
    /\ writes' = writes + 1
    /\ result' = Some([kind |-> "summary", summary |-> RunSummary])
    /\ pc' = IF index = Len(eligible_mails) THEN "done" ELSE "process"
    /\ UNCHANGED <<provider, own_email, lists, counters, file0, history, started, query,
                   pipeline, drafts, backend>>

\* run.py 339-356: the process loop is over; persist the cursor and return the summary.
SaveState ==
    /\ pc = "process"
    /\ index = Len(eligible_mails)
    /\ st' = StateToSave(st, latest_ts, latest_ids_at_ts)
    /\ file' = save_state(st')
    /\ writes' = writes + 1
    /\ result' = Some([kind |-> "summary", summary |-> RunSummary])
    /\ pc' = "done"
    /\ UNCHANGED <<provider, own_email, lists, counters, file0, history, started, query,
                   pipeline, drafts, backend>>

\* run_once has returned or raised: its frame is gone, the caller may start the next run.
Return ==
    /\ pc \in {"done", "error"}
    /\ pc' = "idle"
    /\ prev' = IF pc = "done"
               THEN IF /\ \A k \in 1..Len(load_log) : load_log[k] = "ok"
                       /\ \A k \in 1..Len(proc_log) : proc_log[k] = "ok"
                    THEN [clean |-> TRUE, cands |-> Range(message_ids), own |-> own_email]
                    ELSE NoPrev
               ELSE prev
    /\ st' = DefaultAppState
    /\ own_email' = ""
    /\ message_ids' = <<>>
    /\ loaded_mails' = <<>>
    /\ eligible_mails' = <<>>
    /\ fetched_idx' = 0
    /\ index' = 0
    /\ processed' = 0
    /\ skipped_deleted' = 0
    /\ errors' = 0
    /\ seen' = 0
    /\ latest_ts' = None
    /\ latest_ids_at_ts' = {}
    /\ result' = None
    /\ file0' = file
    /\ load_log' = <<>>
    /\ proc_log' = <<>>
    /\ attempted' = <<>>
    /\ writes' = 0
    /\ query' = None
    /\ UNCHANGED <<provider, file, times_processed, started, pipeline, drafts, backend>>

Next ==
    \/ Deliver
    \/ StartRun
    \/ LoadGmailConfig
    \/ Connect
    \/ GetProfile
    \/ ListMessages
    \/ LoadMessage
    \/ SortLoaded
    \/ FilterEligible
    \/ ProcessMessage
    \/ SaveState
    \/ Return

Spec == Init /\ [][Next]_vars

\* run_once is synchronous, single-threaded code without a wait: once the candidates
\* are listed, the next statement of the run is always executed (run.py 229-356).
RunStep == LoadMessage \/ SortLoaded \/ FilterEligible \/ ProcessMessage \/ SaveState

FairSpec == Spec /\ WF_vars(RunStep)

\* =========================================================== the rule engine
\* What a call gave: a value it returned or the exception it raised.
Returned(v) == [kind |-> "returned", exc |-> "", value |-> <<v>>]
Raised(exc) == [kind |-> "raised", exc |-> exc, value |-> <<>>]

\* A Python value with its type, as far as tuple unpacking tells them apart.
PyBool(b) == [type |-> "bool", matched |-> b, reason |-> ""]
PyTuple2(b, reason) == [type |-> "tuple", matched |-> b, reason |-> reason]

\* "matched, reason = value": only an iterable of two items unpacks.
Unpack2(value) == IF value.type = "tuple" THEN Returned(value) ELSE Raised("TypeError")

\* The texts that occur. A text is known by the phrase lists of the rules it has a
\* hit in (BaseRule.contains_any and BaseRule.regex lower-case both sides):
\*   senders   "no-reply@accounts.google.com", "Google <alerts@accounts.google.com>",
\*             "news@mailchimp.com", "jobs@greenhouse.io", "bob@x.com"
\*   subjects  "Security alert", "Weekly digest", "Weekly security digest",
\*             "Your application", "Hello"
\*   bodies    "", "Click here to unsubscribe", "We received your application",
\*             "See you on Monday"
Senders == {"no-reply@accounts.google.com", "Google <alerts@accounts.google.com>",
            "news@mailchimp.com", "jobs@greenhouse.io", "bob@x.com"}
Subjects == {"Security alert", "Weekly digest", "Weekly security digest",
             "Your application", "Hello"}
Bodies == {"", "Click here to unsubscribe", "We received your application",
           "See you on Monday"}

\* The phrase lists (by the name the rule gives them, or by the pattern) a text has
\* a hit in.
Hits(text) ==
    CASE text = "no-reply@accounts.google.com" -> {"google_sender", "bulk_sender"}
      [] text = "Google <alerts@accounts.google.com>" -> {"google_sender"}
      [] text = "news@mailchimp.com" -> {"bulk_sender"}
      [] text = "jobs@greenhouse.io" -> {"ATS_MARKERS"}
      [] text = "Security alert" -> {"security_topic"}
      [] text = "Weekly digest" -> {"newsletter_topic"}
      [] text = "Weekly security digest" -> {"security_topic", "newsletter_topic"}
      [] text = "Your application" -> {"RECRUITING_WORDS", "applicat*"}
      [] text = "Click here to unsubscribe" -> {"unsubscribe|abbestellen"}
      [] text = "We received your application" ->
             {"CONFIRM_PHRASES", "RECRUITING_WORDS", "receiv*", "applicat*"}
      [] OTHER -> {}

\* BaseRule.contains_any(text, needles) / BaseRule.regex(text, pattern)
contains_any(text, needles) == needles \in Hits(text)

\* rules/core.py 7-12: the fields of the frozen dataclass; all four are required.
MailItemFields == {"id", "thread_id", "headers", "snippet"}

\* The generated __init__: a keyword that is no field, or a missing field, is a
\* TypeError.
MailItem(kwargs) ==
    IF DOMAIN kwargs = MailItemFields THEN Returned(kwargs) ELSE Raised("TypeError")

\* rules/classification.py 95-105
_make_mail_item(subject, from_email, body_text) ==
    MailItem([id |-> "analysis-only",
              thread_id |-> None,
              headers |-> [Subject |-> subject, From |-> from_email],
              snippet |-> body_text,
              internal_date_ms |-> 0])

\* rules/rules.py 15-30
GoogleSecurityAlertRule_match(mail) ==
    PyBool(/\ contains_any(mail.headers.From, "google_sender")
           /\ contains_any(mail.headers.Subject, "security_topic"))

\* rules/rules.py 46-55
NewsletterRule_match(mail) ==
    PyBool(\/ contains_any(mail.headers.From, "bulk_sender")
           \/ contains_any(mail.headers.Subject, "newsletter_topic")
           \/ contains_any(mail.snippet, "unsubscribe|abbestellen"))

\* rules/rules.py 190-242. hay is subject, sender and snippet joined by newlines: a
\* phrase is found in one of the three, and a pattern with ".*" needs both of its
\* words in the same one.
JobAlertRule_match(mail) ==
    LET hay == {mail.headers.Subject, mail.headers.From, mail.snippet}
        any(needles) == \E line \in hay : contains_any(line, needles)
        both(a, b) == \E line \in hay : contains_any(line, a) /\ contains_any(line, b)
    IN PyBool(\/ any("CONFIRM_PHRASES")
              \/ /\ any("REJECTION_PHRASES")
                 /\ (any("RECRUITING_WORDS") \/ any("APPLICATION_DOC_WORDS"))
              \/ /\ any("INTERVIEW_PHRASES")
                 /\ (any("RECRUITING_WORDS") \/ any("m/w/d|junior|senior"))
              \/ any("ATS_MARKERS") /\ any("RECRUITING_WORDS")
              \/ both("dank*", "bewerb*")
              \/ both("bedank*", "bewerb*")
              \/ both("receiv*", "applicat*")
              \/ any("interview|vorstellung") /\ any("einlad*|invite*|termin"))

\* The rule objects of classification.py 26-30, in declaration order.
Rules ==
    <<[name |-> "google_security_alert", priority |-> 100],
      [name |-> "newsletter", priority |-> 10],
      [name |-> "job_application", priority |-> 50]>>

match(rule, mail) ==
    CASE rule.name = "google_security_alert" -> GoogleSecurityAlertRule_match(mail)
      [] rule.name = "newsletter" -> NewsletterRule_match(mail)
      [] rule.name = "job_application" -> JobAlertRule_match(mail)

\* sorted(rules, key=priority, reverse=True): stable, so ties keep declaration order.
RECURSIVE InsertByPriority(_, _)
InsertByPriority(s, r) ==
    IF s = <<>> THEN <<r>>
    ELSE IF r.priority > Head(s).priority THEN <<r>> \o s
    ELSE <<Head(s)>> \o InsertByPriority(Tail(s), r)

RECURSIVE SortedByPriority(_)
SortedByPriority(s) ==
    IF s = <<>> THEN <<>>
    ELSE InsertByPriority(SortedByPriority(SubSeq(s, 1, Len(s) - 1)), s[Len(s)])

\* A label name is the sequence of its tokens: "/", " " or a name, which stands for a
\* run of characters holding neither of the two. Str(name) is a one-name label.
Str(name) == <<name>>

\* rules/classification.py 9-15; confidence and notes are informational.
RuleResult(category, labels, reason) ==
    [category |-> category, labels |-> labels, reason |-> reason]

\* rules/classification.py 39-45: no rule matched.
NoMatchResult == RuleResult("no_fit", <<>>, None)

\* rules/classification.py 84-92: the mapping is built from JobAlertRule.CONFIRM_REASON
\* and three more class attributes; rules/rules.py 69-188 defines none of them.
JobAlertRuleAttributes ==
    {"name", "priority", "CONFIRM_PHRASES", "REJECTION_PHRASES", "INTERVIEW_PHRASES",
     "RECRUITING_WORDS", "APPLICATION_DOC_WORDS", "ATS_MARKERS"}

_job_label_suffix(reason) ==
    IF {"CONFIRM_REASON", "INTERVIEW_REASON", "REJECT_REASON", "NOFIT_REASON"}
           \subseteq JobAlertRuleAttributes
    THEN Returned(CASE reason = "CONFIRM" -> "Confirmation"
                    [] reason = "INTERVIEW" -> "Interview"
                    [] reason = "REJECT" -> "Rejection"
                    [] reason = "NOFIT" -> "NoFit"
                    [] reason = "" -> "Unknown"
                    [] OTHER -> reason)
    ELSE Raised("AttributeError")

\* rules/classification.py 48-81
_result_from_rule(rule_name, reason) ==
    CASE rule_name = "google_security_alert" ->
             Returned(RuleResult("security", <<Str("Security")>>, Some(reason)))
      [] rule_name = "newsletter" ->
             Returned(RuleResult("newsletter", <<Str("Newsletter")>>, Some(reason)))
      [] rule_name = "job_application" ->
             LET label_suffix == _job_label_suffix(reason) IN
             IF label_suffix.kind = "raised" THEN label_suffix
             ELSE Returned(RuleResult("job_application",
                                      <<Str("Applications"),
                                        <<"Applications", "/", label_suffix.value[1]>>>>,
                                      Some(reason)))
      [] OTHER -> Returned(RuleResult("no_fit", <<>>, Some(reason)))

\* rules/classification.py 34-45: the loop over the sorted rules.
RECURSIVE FirstMatch(_, _)
FirstMatch(rules, mail) ==
    IF rules = <<>> THEN Returned(NoMatchResult)
    ELSE LET unpacked == Unpack2(match(Head(rules), mail)) IN
         IF unpacked.kind = "raised" THEN unpacked
         ELSE IF unpacked.value[1].matched
         THEN _result_from_rule(Head(rules).name, unpacked.value[1].reason)
         ELSE FirstMatch(Tail(rules), mail)

\* rules/classification.py 18-45
classify_email(subject, from_email, body_text) ==
    LET mail == _make_mail_item(subject, from_email, body_text) IN
    IF mail.kind = "raised" THEN mail
    ELSE FirstMatch(SortedByPriority(Rules), mail.value[1])

\* models.py 19-27, the fields the planner reads.
EmailAnalysis(category, suggested_labels, reason) ==
    [category |-> category, suggested_labels |-> suggested_labels, reason |-> reason]

\* pipeline/orchestrator.py 6-28: the todos and the summary bullets are computed
\* after the classification and are not read by the planner.
analyze_email(mail) ==
    LET rule_result == classify_email(mail.subject, mail.from_email, mail.body_text) IN
    IF rule_result.kind = "raised" THEN rule_result
    ELSE Returned(EmailAnalysis(rule_result.value[1].category,
                                rule_result.value[1].labels,
                                rule_result.value[1].reason))

Emails == [subject : Subjects, from_email : Senders, body_text : Bodies]

InitClassify ==
    /\ InitRunOnce
    /\ file = None
    /\ email \in {Some(e) : e \in Emails}
    /\ analysis = None
    /\ actions = <<>>
    /\ executor = default_executor(FALSE)
    /\ position = 0
    /\ handled = <<>>
    /\ mailbox_calls = <<>>
    /\ step = "analyze_email"
    /\ InitDrafts
    /\ InitBackend

\* run.py 110: process_message analyses the mail.
AnalyzeEmail ==
    /\ step = "analyze_email"
    /\ analysis' = Some(analyze_email(email[1]))
    /\ step' = IF analysis'[1].kind = "raised" THEN "raised" ELSE "analyzed"
    /\ UNCHANGED <<run_once_vars, drafts, backend, email, actions, executor, position, handled,
                   mailbox_calls>>

NextClassify == AnalyzeEmail

SpecClassify == InitClassify /\ [][NextClassify]_vars

\* ============================================================== the planner
MaxLabels == 4

\* Code-point order of the tokens that occur: blank, then "/", then the names in
\* string order.
Ord(token) ==
    CASE token = " " -> 0
      [] token = "/" -> 1
      [] token = "Application" -> 2
      [] token = "Applications" -> 3
      [] token = "Interview" -> 4
      [] token = "Newsletter" -> 5
      [] token = "Security" -> 6

\* str.isspace() on the tokens that occur: the blank and the line feed.
IsSpace(token) == token \in {" ", "\n"}

\* str.strip()
RECURSIVE lstrip(_)
lstrip(s) == IF s # <<>> /\ IsSpace(Head(s)) THEN lstrip(Tail(s)) ELSE s

RECURSIVE rstrip(_)
rstrip(s) ==
    IF s # <<>> /\ IsSpace(s[Len(s)]) THEN rstrip(SubSeq(s, 1, Len(s) - 1)) ELSE s

strip(s) == rstrip(lstrip(s))

\* str.startswith(prefix)
startswith(s, prefix) == Len(prefix) <= Len(s) /\ SubSeq(s, 1, Len(prefix)) = prefix

\* a < b on strings
RECURSIVE StrLess(_, _)
StrLess(a, b) ==
    IF b = <<>> THEN FALSE
    ELSE IF a = <<>> THEN TRUE
    ELSE IF Head(a) = Head(b) THEN StrLess(Tail(a), Tail(b))
    ELSE Ord(Head(a)) < Ord(Head(b))

\* sorted(set_of_strings)
RECURSIVE SortedStrs(_)
SortedStrs(S) ==
    IF S = {} THEN <<>>
    ELSE LET lo == CHOOSE x \in S : \A y \in S \ {x} : StrLess(x, y)
         IN <<lo>> \o SortedStrs(S \ {lo})

\* Faulty variant of _prefer_most_specific_labels: duplicates go, parents stay.
_prefer_most_specific_labels_keeps_parents(labels) ==
    SortedStrs({strip(labels[k]) : k \in 1..Len(labels)} \ {<<>>})

\* pipeline/policy.py 9-24
_prefer_most_specific_labels(labels) ==
    LET unique_set == {strip(labels[k]) : k \in 1..Len(labels)} \ {<<>>}
        unique == SortedStrs(unique_set)
        has_child(label) ==
            \E other \in unique_set : other # label /\ startswith(other, label \o <<"/">>)
        keep(label) == ~has_child(label)
    IN SelectSeq(unique, keep)

\* rules/core.py 23-28
Action(type, message_id, label_name, reason) ==
    [type |-> type, message_id |-> message_id, label_name |-> label_name, reason |-> reason]

\* "value or default" on an Optional[str]
Or(value, default) == IF value = None \/ value = Some("") THEN default ELSE value[1]

\* Faulty variant of actions_from_analysis: the analysis request hangs on a label
\* having been chosen.
actions_from_analysis_needs_label(a, message_id) ==
    LET labels == _prefer_most_specific_labels(a.suggested_labels) IN
    [k \in 1..Len(labels) |->
         Action("add_label", message_id, Some(labels[k]), Or(a.reason, a.category))]
    \o (IF a.category = "job_application" /\ labels # <<>>
        THEN <<Action("analyze_application", message_id, None,
                      Or(a.reason, "Job application detected"))>>
        ELSE <<>>)

\* pipeline/policy.py 27-50
actions_from_analysis(a, message_id) ==
    LET labels == _prefer_most_specific_labels(a.suggested_labels) IN
    [k \in 1..Len(labels) |->
         Action("add_label", message_id, Some(labels[k]), Or(a.reason, a.category))]
    \o (IF a.category = "job_application"
        THEN <<Action("analyze_application", message_id, None,
                      Or(a.reason, "Job application detected"))>>
        ELSE <<>>)

\* The label names the planner is given: those the rule engine builds (a top-level
\* name, a name under "Applications") and deeper or parallel hierarchies of them.
LabelNames ==
    {Str("Applications"),
     <<"Applications", "/", "Interview">>,
     <<"Applications", "/", "Interview", "/", "Application">>,
     Str("Interview"),
     <<"Interview", "/", "Application">>,
     Str("Security")}

RECURSIVE SeqsUpTo(_, _)
SeqsUpTo(S, n) ==
    IF n = 0 THEN {<<>>}
    ELSE LET shorter == SeqsUpTo(S, n - 1)
         IN shorter \cup {Append(s, x) : s \in {t \in shorter : Len(t) = n - 1}, x \in S}

Categories == {"security", "newsletter", "job_application", "no_fit"}

EmailAnalyses ==
    {EmailAnalysis(c, ls, r) :
         c \in Categories, ls \in SeqsUpTo(LabelNames, MaxLabels),
         r \in {None, Some("INTERVIEW")}}

InitPolicy ==
    /\ InitRunOnce
    /\ file = None
    /\ email \in {Some([message_id |-> m]) : m \in MsgIds}
    /\ analysis \in {Some(Returned(a)) : a \in EmailAnalyses}
    /\ actions = <<>>
    /\ executor = default_executor(FALSE)
    /\ position = 0
    /\ handled = <<>>
    /\ mailbox_calls = <<>>
    /\ step = "actions_from_analysis"
    /\ InitDrafts
    /\ InitBackend

\* run.py 111: process_message plans the actions.
PlanActions ==
    /\ step = "actions_from_analysis"
    /\ analysis # None
    /\ analysis[1].kind = "returned"
    /\ actions' = actions_from_analysis(analysis[1].value[1], email[1].message_id)
    /\ step' = "planned"
    /\ UNCHANGED <<run_once_vars, drafts, backend, email, analysis, executor, position, handled,
                   mailbox_calls>>

NextPolicy == PlanActions

SpecPolicy == InitPolicy /\ [][NextPolicy]_vars

\* ============================================================= the executor
MaxActions == 3

\* One completed GmailClient call of a handler.
ClientCall(call, action) ==
    [call |-> call, message_id |-> action.message_id, label_name |-> action.label_name]

\* What handler.handle(client, action) can do (actions/handlers.py 21-44): the
\* client calls it completes and whether it raises.
\*   PrintHandler     prints.
\*   AddLabelHandler  raises ValueError without a label name; else calls
\*                    get_or_create_label_id and add_label, either of which can fail.
\*   ArchiveHandler   calls client.archive, which GmailClient does not define
\*                    (gmail/client.py): AttributeError.
HandleOutcomes(action) ==
    CASE action.type = "print" -> {[calls |-> <<>>, raised |-> FALSE]}
      [] action.type = "add_label" ->
             IF action.label_name = None \/ action.label_name = Some(<<>>)
             THEN {[calls |-> <<>>, raised |-> TRUE]}
             ELSE {[calls |-> <<>>, raised |-> TRUE],
                   [calls |-> <<ClientCall("get_or_create_label_id", action)>>,
                    raised |-> TRUE],
                   [calls |-> <<ClientCall("get_or_create_label_id", action),
                                ClientCall("add_label", action)>>,
                    raised |-> FALSE]}
      [] action.type = "archive" -> {[calls |-> <<>>, raised |-> TRUE]}

\* Faulty variant of Dispatch: the dry-run test is missing.
Dispatch_ignores_dry_run(ex, action) ==
    IF action.type \notin ex.handlers THEN "no_handler" ELSE "handle"

\* actions/executor.py 24-34: what the loop does with an action before any handler
\* is called.
Dispatch(ex, action) ==
    IF action.type \notin ex.handlers THEN "no_handler"
    ELSE IF ex.dry_run THEN "dry_run"
    ELSE "handle"

\* Faulty variant of AfterFailure: a failure always leaves the loop.
AfterFailure_always_raises(ex) == "raised"

\* actions/executor.py 38-44: where run is after a handler raised.
AfterFailure(ex) == IF ~ex.continue_on_error THEN "raised" ELSE "run"

\* The action lists run is given for one message.
ActionsFor(m) ==
    {Action("add_label", m, Some(Str("Security")), "security"),
     Action("add_label", m, None, "security"),
     Action("analyze_application", m, None, "Job application detected"),
     Action("archive", m, None, ""),
     Action("print", m, None, "")}

Executors == {ActionExecutor({"print", "add_label", "archive"}, d, c) : d, c \in BOOLEAN}

InitExecutor ==
    /\ InitRunOnce
    /\ file = None
    /\ email \in {Some([message_id |-> m]) : m \in MsgIds}
    /\ analysis = None
    /\ actions \in SeqsUpTo(ActionsFor(email[1].message_id), MaxActions)
    /\ executor \in Executors
    /\ position = 0
    /\ handled = <<>>
    /\ mailbox_calls = <<>>
    /\ step = "run"
    /\ InitDrafts
    /\ InitBackend

\* actions/executor.py 23-44: one iteration of the loop of ActionExecutor.run.
ExecuteAction ==
    /\ step = "run"
    /\ position < Len(actions)
    /\ position' = position + 1
    /\ LET action == actions[position + 1] IN
       IF Dispatch(executor, action) = "handle"
       THEN \E outcome \in HandleOutcomes(action) :
                /\ handled' = Append(handled, [action |-> action, raised |-> outcome.raised])
                /\ mailbox_calls' = mailbox_calls \o outcome.calls
                /\ step' = IF outcome.raised THEN AfterFailure(executor) ELSE "run"
       ELSE UNCHANGED <<handled, mailbox_calls, step>>
    /\ UNCHANGED <<run_once_vars, drafts, backend, email, analysis, actions, executor>>

\* actions/executor.py 23: the list is exhausted, run returns None.
ExecutorReturn ==
    /\ step = "run"
    /\ position = Len(actions)
    /\ step' = "returned"
    /\ UNCHANGED <<run_once_vars, drafts, backend, email, analysis, actions, executor, position, handled,
                   mailbox_calls>>

NextExecutor == ExecuteAction \/ ExecutorReturn

SpecExecutor == InitExecutor /\ [][NextExecutor]_vars

\* ========================================================= the reply subject
MaxSubjectLen == 5

\* A subject is the sequence of its tokens: ":", a blank, a line feed, or a word,
\* which stands for a run of characters holding none of the three.
SubjectWords == {"Re", "aw", "SV", "x"}
SubjectTokens == SubjectWords \cup {":", " ", "\n"}

\* str.lower() on the words that occur.
Lower(word) ==
    CASE word = "Re" -> "re"
      [] word = "SV" -> "sv"
      [] OTHER -> word

\* "Re: "
RePrefix == <<"Re", ":", " ">>

\* "Re: Einladung zum Vorstellungsgespraech" (the source spells it with a-umlaut).
DefaultReplySubject ==
    RePrefix \o <<"Einladung", " ", "zum", " ", "Vorstellungsgespraech">>

\* re.match(r"^(re|aw|sv)\s*:\s*(.*)$", cleaned, flags=re.IGNORECASE): None, or
\* group 2. Each \s* takes the whitespace there is; "." matches no line feed and
\* "$" only the end of the string, so a line feed in what follows makes the match
\* fail.
reply_prefix_match(cleaned) ==
    IF cleaned = <<>> \/ Lower(Head(cleaned)) \notin {"re", "aw", "sv"} THEN None
    ELSE LET after_word == lstrip(Tail(cleaned)) IN
         IF after_word = <<>> \/ Head(after_word) # ":" THEN None
         ELSE LET group2 == lstrip(Tail(after_word)) IN
              IF \E k \in 1..Len(group2) : group2[k] = "\n" THEN None ELSE Some(group2)

\* Faulty variant of _as_reply_subject: an existing prefix is not looked for.
_as_reply_subject_stacks(subject) ==
    LET cleaned == strip(subject) IN
    IF cleaned = <<>> THEN DefaultReplySubject ELSE RePrefix \o cleaned

\* backend/app/api/drafts.py 60-70 (scripts/create_drafts_from_interviews.py 42-52
\* is the same code).
_as_reply_subject(subject) ==
    LET cleaned == strip(subject) IN
    IF cleaned = <<>> THEN DefaultReplySubject
    ELSE LET m == reply_prefix_match(cleaned) IN
         IF m # None
         THEN LET tail == strip(m[1]) IN
              IF tail = <<>> THEN DefaultReplySubject ELSE RePrefix \o tail
         ELSE RePrefix \o cleaned

\* The subject strings: every token sequence up to the bound in which no two words
\* are adjacent (two adjacent words are one word).
SubjectStrings ==
    {s \in SeqsUpTo(SubjectTokens, MaxSubjectLen) :
         \A k \in 1..(Len(s) - 1) : ~(s[k] \in SubjectWords /\ s[k + 1] \in SubjectWords)}

InitSubject ==
    /\ InitRunOnce
    /\ file = None
    /\ InitPipeline
    /\ InitBackend
    /\ original_subject \in SubjectStrings
    /\ reply = <<>>

\* drafts.py 73-85: _build_subject applies _as_reply_subject to the original
\* subject; replying to the draft's thread applies it to its own result.
AsReplySubject ==
    /\ Len(reply) < 2
    /\ reply' = Append(reply, _as_reply_subject(IF reply = <<>> THEN original_subject
                                                ELSE reply[Len(reply)]))
    /\ UNCHANGED <<run_once_vars, pipeline, original_subject, backend>>

NextSubject == AsReplySubject

SpecSubject == InitSubject /\ [][NextSubject]_vars

\* ========================================================= the cursor store
\* The cursor files load_state can find on disk: a JSON object written by this
\* revision (the four AppState fields), by an earlier one (legacy key, no id-set),
\* one that carries both history keys, and objects with keys missing. A history
\* token is null, the empty string or a token.
HistoryValues == {None, Some(""), Some("h1")}

FileKeys ==
    {{"last_history_time", "last_internal_date_ms", "last_message_ids_at_latest_ts", "runs"},
     {"last_history_TIME", "last_internal_date_ms", "runs"},
     {"last_history_TIME", "last_history_time", "last_internal_date_ms",
      "last_message_ids_at_latest_ts", "runs"},
     {"last_internal_date_ms"},
     {}}

FileObjects ==
    {[k \in K |-> full[k]] :
         K \in FileKeys,
         full \in [last_history_time : HistoryValues,
                   last_history_TIME : HistoryValues,
                   last_internal_date_ms : {None} \cup {Some(t) : t \in Timestamps},
                   last_message_ids_at_latest_ts : {<<>>, <<1>>},
                   runs : 0..MaxRuns]}

InitStore ==
    /\ mailbox = [m \in MsgIds |-> None]
    /\ deleted = {}
    /\ labelled = {}
    /\ file \in {None} \cup {Some(data) : data \in FileObjects}
    /\ pc = "idle"
    /\ st = DefaultAppState
    /\ own_email = ""
    /\ message_ids = <<>>
    /\ loaded_mails = <<>>
    /\ eligible_mails = <<>>
    /\ fetched_idx = 0
    /\ index = 0
    /\ processed = 0
    /\ skipped_deleted = 0
    /\ errors = 0
    /\ seen = 0
    /\ latest_ts = None
    /\ latest_ids_at_ts = {}
    /\ result = None
    /\ file0 = file
    /\ load_log = <<>>
    /\ proc_log = <<>>
    /\ attempted = <<>>
    /\ writes = 0
    /\ times_processed = [m \in MsgIds |-> 0]
    /\ prev = NoPrev
    /\ started = 0
    /\ query = None
    /\ InitPipeline
    /\ InitDrafts
    /\ InitBackend

store_frame ==
    <<provider, pc, own_email, lists, counters, result, file0, load_log, proc_log, attempted,
      times_processed, prev, started, query, email, analysis, actions, executor, position,
      handled, mailbox_calls, drafts, backend>>

\* storage/state.py 16-27, as run.py 181 calls it.
LoadState ==
    /\ step = "idle"
    /\ st' = load_state(file)
    /\ step' = "loaded"
    /\ UNCHANGED <<file, writes, store_frame>>

\* run.py 341-346: the run updates the loaded state (with a working pair, or with
\* none when nothing was processed) and saves it.
SaveLoaded ==
    /\ step = "loaded"
    /\ \E ts_now \in {None} \cup {Some(t) : t \in Timestamps} :
       \E ids_now \in IF ts_now = None THEN {{}} ELSE SUBSET MsgIds \ {{}} :
           st' = StateToSave(st, ts_now, ids_now)
    /\ file' = save_state(st')
    /\ writes' = writes + 1
    /\ step' = "saved"
    /\ UNCHANGED store_frame

\* The next run loads what was saved.
Reload ==
    /\ step = "saved"
    /\ st' = load_state(file)
    /\ step' = "reloaded"
    /\ UNCHANGED <<file, writes, store_frame>>

NextStore == LoadState \/ SaveLoaded \/ Reload

SpecStore == InitStore /\ [][NextStore]_vars

\* ========================================================= body extraction
MaxParts == 2

\* The body.data strings that occur, and what parser.py 13 makes of each:
\* base64.urlsafe_b64decode, then decode("utf-8", errors="replace").
\*   "aGk="  -> "hi"        "PGI+"  -> "<b>"
\*   "===="  -> ""          (padding only: a non-empty string that decodes to nothing)
\*   "a"     -> binascii.Error (one data character is no base64)
DataStrings == {"aGk=", "PGI+", "====", "a"}

decode(data) ==
    CASE data = "aGk=" -> Returned("hi")
      [] data = "PGI+" -> Returned("<b>")
      [] data = "====" -> Returned("")
      [] data = "a" -> Raised("binascii.Error")

\* part.get("body", {}).get("data") as a condition: absent and "" are false.
HasData(part) == part.data # None /\ part.data[1] # ""

\* "if found:" (parser.py 21, 29, 33): None and "" are false.
Found(found) == found # None /\ found[1] # ""

RECURSIVE find_part(_, _)
RECURSIVE find_in_children(_, _, _)

\* parser.py 19-23: the loop over part["parts"], from child k on.
find_in_children(children, k, mime_type) ==
    IF k > Len(children)
    THEN Returned(None)
    ELSE LET found == find_part(children[k], mime_type) IN
         IF found.kind = "raised" THEN found
         ELSE IF Found(found.value[1]) THEN found
         ELSE find_in_children(children, k + 1, mime_type)

\* parser.py 15-23: None, or a string, or the exception of decode.
find_part(part, mime_type) ==
    IF part.mimeType = mime_type /\ HasData(part)
    THEN LET decoded == decode(part.data[1]) IN
         IF decoded.kind = "raised" THEN decoded ELSE Returned(Some(decoded.value[1]))
    ELSE find_in_children(part.parts, 1, mime_type)

\* parser.py 25-36
extract_body_from_payload(p) ==
    IF HasData(p)
    THEN decode(p.data[1])
    ELSE LET text == find_part(p, "text/plain") IN
         IF text.kind = "raised" THEN text
         ELSE IF Found(text.value[1]) THEN Returned(text.value[1][1])
         ELSE LET html == find_part(p, "text/html") IN
              IF html.kind = "raised" THEN html
              ELSE IF Found(html.value[1]) THEN Returned(html.value[1][1])
              ELSE Returned("")

\* The payloads that occur: a leaf is a part without parts, with or without
\* body.data; a multipart has no data of its own and one to MaxParts parts; parts
\* nest two deep (multipart/mixed holding multipart/alternative).
LeafTypes == {"text/plain", "text/html", "image/png"}

LeafParts == [mimeType : LeafTypes, data : {None} \cup {Some(d) : d \in DataStrings},
           parts : {<<>>}]

Multiparts(children) ==
    [mimeType : {"multipart/mixed"}, data : {None},
     parts : SeqsUpTo(children, MaxParts) \ {<<>>}]

Payloads == LeafParts \cup Multiparts(LeafParts \cup Multiparts(LeafParts))

parser_frame == <<run_once_vars, pipeline, drafts, label_cache, draft_files, service>>

InitParser ==
    /\ InitRunOnce
    /\ file = None
    /\ InitPipeline
    /\ InitDrafts
    /\ payload \in {Some(p) : p \in Payloads}
    /\ body = None
    /\ InitLabelCache
    /\ InitDraftFiles
    /\ InitService

\* run.py 86: build_mail extracts the body of the payload it fetched.
ExtractBody ==
    /\ body = None
    /\ body' = Some(extract_body_from_payload(payload[1]))
    /\ UNCHANGED <<payload, parser_frame>>

NextParser == ExtractBody

SpecParser == InitParser /\ [][NextParser]_vars

\* =========================================================== the label cache
MaxConnects == 2
MaxResolutions == 3
MaxLabelIds == 3

label_cache_frame == <<run_once_vars, pipeline, drafts, parser, draft_files, service>>

\* The names the planner asks for, and those of them LabelColors.py has a colour for.
UserLabels == {"Security", "Misc"}
LABEL_COLORS == {"Security"}

\* "if not self._label_cache" (client.py 129): the dict has no entry.
IsEmptyCache(cache) == \A n \in LabelKeys : cache[n] = None

\* client.py 121-125: the cache becomes the provider's listing.
_refresh_label_cache == provider_labels

\* Faulty variant of CacheAfterLookup: the listing is fetched on every lookup.
CacheAfterLookup_always_lists(cache) == _refresh_label_cache

\* client.py 127-131: the cache after _get_label_id, which fills an empty one.
CacheAfterLookup(cache) == IF IsEmptyCache(cache) THEN _refresh_label_cache ELSE cache

\* client.py 63-64: connect() clears the cache.
CacheAfterConnect(cache) == EmptyCache

\* client.py 38-64
ClientConnect ==
    /\ connects < MaxConnects
    /\ connects' = connects + 1
    /\ _label_cache' = CacheAfterConnect(_label_cache)
    /\ resolved' = <<>>
    /\ created' = <<>>
    /\ obtained' = {}
    /\ UNCHANGED <<provider_labels, next_label_id, label_cache_frame>>

\* client.py 133-162: get_or_create_label_id(label_name). A name the cache knows
\* gives its cached id, after the colour of a LABEL_COLORS name was patched at the
\* provider (which fails when the provider has no label of that id any more); any
\* other name is created, which the provider refuses when it has a label of that
\* name already.
ResolveLabel(label_name) ==
    /\ connects >= 1
    /\ Len(resolved) < MaxResolutions
    /\ LET listed == IsEmptyCache(_label_cache)
           cache == CacheAfterLookup(_label_cache)
           label_id == cache[label_name]
           sent == IF listed \/ cache # _label_cache
                   THEN {<<n, provider_labels[n][1]>> :
                             n \in {k \in LabelKeys : provider_labels[k] # None}}
                   ELSE {}
       IN IF label_id # None
          THEN /\ _label_cache' = cache
               /\ obtained' = obtained \cup sent
               /\ resolved' =
                      Append(resolved,
                             [name |-> label_name,
                              outcome |->
                                  IF /\ label_name \in LABEL_COLORS
                                     /\ \A n \in LabelKeys : provider_labels[n] # label_id
                                  THEN Raised("HttpError")
                                  ELSE Returned(label_id[1])])
               /\ UNCHANGED <<provider_labels, next_label_id, created>>
          ELSE IF provider_labels[label_name] # None \/ next_label_id > MaxLabelIds
          THEN /\ _label_cache' = cache
               /\ obtained' = obtained \cup sent
               /\ resolved' = Append(resolved, [name |-> label_name,
                                                outcome |-> Raised("HttpError")])
               /\ UNCHANGED <<provider_labels, next_label_id, created>>
          ELSE /\ provider_labels' =
                      [provider_labels EXCEPT ![label_name] = Some(next_label_id)]
               /\ next_label_id' = next_label_id + 1
               /\ _label_cache' = [cache EXCEPT ![label_name] = Some(next_label_id)]
               /\ obtained' = obtained \cup sent \cup {<<label_name, next_label_id>>}
               /\ created' = Append(created, label_name)
               /\ resolved' = Append(resolved, [name |-> label_name,
                                                outcome |-> Returned(next_label_id)])
    /\ UNCHANGED <<connects, label_cache_frame>>

\* The mailbox owner, or another client, deletes a label or creates one.
ProviderChange ==
    /\ \E n \in UserLabels :
           \/ /\ provider_labels[n] # None
              /\ provider_labels' = [provider_labels EXCEPT ![n] = None]
              /\ UNCHANGED next_label_id
           \/ /\ provider_labels[n] = None
              /\ next_label_id <= MaxLabelIds
              /\ provider_labels' = [provider_labels EXCEPT ![n] = Some(next_label_id)]
              /\ next_label_id' = next_label_id + 1
    /\ UNCHANGED <<_label_cache, connects, resolved, created, obtained, label_cache_frame>>

InitLabels ==
    /\ InitRunOnce
    /\ file = None
    /\ InitPipeline
    /\ InitDrafts
    /\ InitBackend

NextLabels ==
    \/ ClientConnect
    \/ \E label_name \in UserLabels : ResolveLabel(label_name)
    \/ ProviderChange

SpecLabels == InitLabels /\ [][NextLabels]_vars

\* ============================================================ draft creation
MaxInvocations == 2

draft_files_frame == <<run_once_vars, pipeline, drafts, parser, label_cache, service>>

\* sorted(p for p in interviews_dir.iterdir() ...): drafts.py 309-313, script 371.
SortedFiles(S) == SelectSeq(FileOrder, LAMBDA f : f \in S)

\* The two entry points. The endpoint always skips marked files (drafts.py
\* 342-350); the script does unless it is given --no-skip-existing (script 329-333).
Invocations ==
    [entry : {"api"}, dry_run : BOOLEAN, skip_existing : {TRUE}]
        \cup [entry : {"script"}, dry_run : BOOLEAN, skip_existing : BOOLEAN]

\* Faulty variant of candidate_files: the marker test is missing.
candidate_files_unfiltered(inv, listed) == SortedFiles(listed)

\* drafts.py 342-350, script 376-386: the pre-filter on existing markers.
candidate_files(inv, listed) ==
    IF inv.skip_existing THEN SortedFiles(listed \ markers) ELSE SortedFiles(listed)

\* The analyze_application handler writes an interview file (status "interview",
\* or another one such as "rejected").
WriteInterview ==
    /\ \E f \in Files : \E status \in {"interview", "rejected"} :
           /\ interviews[f] = None
           /\ interviews' = [interviews EXCEPT ![f] = Some(status)]
    /\ UNCHANGED <<markers, provider_drafts, invocation, invocations, json_files,
                   prev_json_files, marked_at_start, made, draft_files_frame>>

\* drafts.py 295-350, script 371-386: the invocation lists the interview files
\* and drops those with a marker.
StartInvocation ==
    /\ invocation = None
    /\ invocations < MaxInvocations
    /\ \E inv \in Invocations :
           LET listed == {f \in Files : interviews[f] # None} IN
           /\ invocation' = Some([entry |-> inv.entry, dry_run |-> inv.dry_run,
                                  skip_existing |-> inv.skip_existing,
                                  candidates |-> candidate_files(inv, listed),
                                  position |-> 0])
           /\ json_files' = listed
    /\ invocations' = invocations + 1
    /\ prev_json_files' = json_files
    /\ marked_at_start' = markers
    /\ made' = {}
    /\ UNCHANGED <<interviews, markers, provider_drafts, draft_files_frame>>

\* What happens to one candidate file: it is skipped, or its draft is prepared and,
\* outside dry-run, created and marked. "failed" is an exception before the draft
\* exists (reading the file, hydrating, generating, create_draft itself),
\* "marker_failed" one of writing the marker after the draft was created.
FileOutcomes == {"ok", "failed", "marker_failed"}

\* drafts.py 413-497: the endpoint counts an error and goes on; script 400-414:
\* the exception leaves main.
AfterFileError(inv) ==
    IF inv.entry = "api"
    THEN Some([inv EXCEPT !.position = @ + 1])
    ELSE None

\* drafts.py 413-478, script 254-307: one iteration of the loop over the candidates.
ProcessFile ==
    /\ invocation # None
    /\ LET inv == invocation[1] IN
       /\ inv.position < Len(inv.candidates)
       /\ LET json_path == inv.candidates[inv.position + 1]
              proceed == Some([inv EXCEPT !.position = @ + 1])
          IN \E outcome \in FileOutcomes :
              IF \/ (inv.entry = "script" /\ inv.skip_existing /\ json_path \in markers)
                 \/ interviews[json_path] # Some("interview")
              THEN /\ outcome = "ok"
                   /\ invocation' = proceed
                   /\ UNCHANGED <<markers, provider_drafts, made>>
              ELSE IF outcome = "failed"
              THEN /\ invocation' = AfterFileError(inv)
                   /\ UNCHANGED <<markers, provider_drafts, made>>
              ELSE IF inv.dry_run
              THEN /\ outcome = "ok"
                   /\ invocation' = proceed
                   /\ UNCHANGED <<markers, provider_drafts, made>>
              ELSE /\ provider_drafts' = [provider_drafts EXCEPT ![json_path] = @ + 1]
                   /\ made' = made \cup {json_path}
                   /\ IF outcome = "ok"
                      THEN /\ markers' = markers \cup {json_path}
                           /\ invocation' = proceed
                      ELSE /\ markers' = markers
                           /\ invocation' = AfterFileError(inv)
    /\ UNCHANGED <<interviews, invocations, json_files, prev_json_files, marked_at_start,
                   draft_files_frame>>

\* drafts.py 352-378, 499-528, script 414: no candidate is left, the invocation returns.
FinishInvocation ==
    /\ invocation # None
    /\ invocation[1].position = Len(invocation[1].candidates)
    /\ invocation' = None
    /\ UNCHANGED <<interviews, markers, provider_drafts, invocations, json_files,
                   prev_json_files, marked_at_start, made, draft_files_frame>>

InitDraftCreation ==
    /\ InitRunOnce
    /\ file = None
    /\ InitPipeline
    /\ InitDrafts
    /\ InitBackend

NextDraftCreation == WriteInterview \/ StartInvocation \/ ProcessFile \/ FinishInvocation

SpecDraftCreation == InitDraftCreation /\ [][NextDraftCreation]_vars

\* =============================================================== the service
MaxSaves == 2
MaxPushes == 3

\* run.py 33, 40: updated[:50]; drafts.py 263, 496: current[:49].
RecentCap == 50

service_frame ==
    <<provider, pc, st, own_email, lists, counters, result, file0, load_log, proc_log,
      attempted, writes, times_processed, prev, started, query, pipeline, drafts, parser,
      label_cache, draft_files>>

\* s[:n]
Take(s, n) == SubSeq(s, 1, IF Len(s) < n THEN Len(s) ELSE n)

\* run.py 32-33 and 39-40: progress_cb puts the entry in front and cuts.
progress_cb_updated(entry, cur) == Take(<<entry>> \o cur, RecentCap)

\* Faulty variant of _push_recent_action_updated: the old list is cut to the full window.
_push_recent_action_keeps_window(entry, cur) == <<entry>> \o Take(cur, RecentCap)

\* drafts.py 263 and 488-496: the old list is cut, then the entry is put in front.
_push_recent_action_updated(entry, cur) == <<entry>> \o Take(cur, RecentCap - 1)

\* The entries n down to 1, newest first: what n pushes that followed one another
\* have left in a list.
Older(n) == [k \in 1..n |-> n + 1 - k]

\* The store of a service that has been up for a while: each list is empty, or
\* one entry short of full, or full.
InitRecent ==
    /\ \E a \in {0, RecentCap - 1, RecentCap} : \E e \in {0, RecentCap - 1} :
           /\ recent_actions = Older(a)
           /\ recent_errors = Older(e)
           /\ pushed = {[n |-> k, list |-> "recent_actions"] : k \in 1..a}
                           \cup {[n |-> k, list |-> "recent_errors"] : k \in 1..e}
    /\ entries = RecentCap
    /\ thread = [t \in Threads |-> "idle"]
    /\ current = [t \in Threads |-> <<>>]
    /\ run_st = [r \in Runs |-> DefaultAppState]
    /\ saves = 0

Pushing == {"push_recent_actions", "push_recent_errors"}
RunsStarted == Cardinality({w \in Runs : thread[w] # "idle"})
InProgress == Cardinality({w \in Threads : thread[w] \in Pushing})

\* run.py 12-18: POST /run; the handler marks the store "running" and hands
\* run_once to a worker thread. Nothing keeps a second request from doing the same
\* while the first run is in progress.
PostRun(r) ==
    /\ thread[r] = "idle"
    /\ saves + RunsStarted < MaxSaves
    /\ thread' = [thread EXCEPT ![r] = "starting"]
    /\ UNCHANGED <<recent_actions, recent_errors, current, run_st, entries, pushed, saves,
                   file, service_frame>>

\* app/run.py 180-182: the run loads the cursor.
RunLoadState(r) ==
    /\ thread[r] = "starting"
    /\ run_st' = [run_st EXCEPT ![r] = load_state(file)]
    /\ thread' = [thread EXCEPT ![r] = "running"]
    /\ UNCHANGED <<recent_actions, recent_errors, current, entries, pushed, saves, file,
                   service_frame>>

\* drafts.py 295-304: POST /drafts/create, handled in a thread of the pool.
PostDrafts ==
    /\ thread["drafts"] = "idle"
    /\ thread' = [thread EXCEPT !["drafts"] = "drafts"]
    /\ UNCHANGED <<recent_actions, recent_errors, current, run_st, entries, pushed, saves,
                   file, service_frame>>

\* run.py 30 and 37, drafts.py 257-258 and 483: the thread reads the list it is
\* about to push to, with snapshot(), which holds the lock for the read only.
Snapshot(t) ==
    /\ thread[t] \in {"running", "drafts"}
    /\ (entries - RecentCap) + InProgress < MaxPushes
    /\ \E list \in {"recent_actions", "recent_errors"} :
           /\ current' = [current EXCEPT ![t] = IF list = "recent_actions"
                                                 THEN recent_actions ELSE recent_errors]
           /\ thread' = [thread EXCEPT ![t] = IF list = "recent_actions"
                                               THEN "push_recent_actions"
                                               ELSE "push_recent_errors"]
    /\ UNCHANGED <<recent_actions, recent_errors, run_st, entries, pushed, saves, file,
                   service_frame>>

\* run.py 44, drafts.py 259-264 and 484-497: the thread stores the list it built
\* from its copy, with update(), which holds the lock for the write only.
Update(t) ==
    /\ thread[t] \in Pushing
    /\ LET entry == entries + 1
           updated == IF t \in Runs THEN progress_cb_updated(entry, current[t])
                      ELSE _push_recent_action_updated(entry, current[t])
           list == IF thread[t] = "push_recent_actions" THEN "recent_actions"
                   ELSE "recent_errors"
       IN /\ recent_actions' = IF list = "recent_actions" THEN updated ELSE recent_actions
          /\ recent_errors' = IF list = "recent_errors" THEN updated ELSE recent_errors
          /\ entries' = entry
          /\ pushed' = pushed \cup {[n |-> entry, list |-> list]}
    /\ thread' = [thread EXCEPT ![t] = IF t \in Runs THEN "running" ELSE "drafts"]
    /\ current' = [current EXCEPT ![t] = <<>>]
    /\ UNCHANGED <<run_st, saves, file, service_frame>>

\* app/run.py 339-346: the run saves the cursor it loaded, moved to what it
\* processed (nothing, or messages not older than the loaded cursor).
RunSaveState(r) ==
    /\ thread[r] = "running"
    /\ \E ts_now \in {None} \cup {Some(t) : t \in Timestamps} :
       \E ids_now \in IF ts_now = None THEN {{}} ELSE {{m} : m \in MsgIds} :
           /\ IF ts_now = None \/ run_st[r].last_internal_date_ms = None
              THEN TRUE
              ELSE ts_now[1] >= run_st[r].last_internal_date_ms[1]
           /\ file' = save_state(StateToSave(run_st[r], ts_now, ids_now))
    /\ saves' = saves + 1
    /\ thread' = [thread EXCEPT ![r] = "saved"]
    /\ UNCHANGED <<recent_actions, recent_errors, current, run_st, entries, pushed,
                   service_frame>>

\* run.py 56-72, drafts.py 499-528: the request returns (a run also when run_once
\* raised before it saved anything).
RequestReturns(t) ==
    /\ thread[t] \in {"starting", "running", "saved", "drafts"}
    /\ thread' = [thread EXCEPT ![t] = "idle"]
    /\ UNCHANGED <<recent_actions, recent_errors, current, run_st, entries, pushed, saves,
                   file, service_frame>>

InitServiceSpec ==
    /\ InitRunOnce
    /\ file = None
    /\ InitPipeline
    /\ InitDrafts
    /\ payload = None
    /\ body = None
    /\ InitLabelCache
    /\ InitDraftFiles
    /\ InitRecent

NextService ==
    \/ \E r \in Runs : PostRun(r)
    \/ \E r \in Runs : RunLoadState(r)
    \/ PostDrafts
    \/ \E t \in Threads : Snapshot(t)
    \/ \E t \in Threads : Update(t)
    \/ \E r \in Runs : RunSaveState(r)
    \/ \E t \in Threads : RequestReturns(t)

SpecService == InitServiceSpec /\ [][NextService]_vars

\* ================================================================== claims
\* The cursor the run loaded, and the cursor that is on disk now.
Loaded == load_state(file0)
Persisted == load_state(file)

CountIn(log, S) == Cardinality({k \in 1..Len(log) : log[k] \in S})

\* The filter the next run would apply to a mail, given the cursor on disk now.
EligibleNextRun(mail) ==
    IsEligible(Persisted, Range(Persisted.last_message_ids_at_latest_ts), own_email, mail)

\* C1 (as claimed): when a run in which every fetch and every eligible message
\* succeeded is followed by a run over the same candidate set, with the same own
\* address and every fetch succeeding again, against the cursor the first run
\* persisted, the second run sees no eligible message (message_ids_seen = 0).
C1_ReplaySeesNothing ==
    (/\ pc = "done"
     /\ prev.clean
     /\ prev.cands = Range(message_ids)
     /\ prev.own = own_email
     /\ \A k \in 1..Len(load_log) : load_log[k] = "ok")
    => result[1].summary.message_ids_seen = 0

\* C2 (as claimed): while no message has been deleted from the mailbox, no message
\* id is counted in processed by more than one run.
C2_ProcessedAtMostOnce ==
    deleted = {} => \A m \in MsgIds : times_processed[m] <= 1

\* C3 (as claimed): after a run has persisted its cursor, every eligible message
\* whose processing raised in that run still passes the eligibility filter of the
\* next run.
C3_FailedStaysEligible ==
    pc = "done" =>
        \A k \in 1..Len(proc_log) :
            proc_log[k] = "raise" => EligibleNextRun(eligible_mails[k])

\* --------------------------------------------------------------------------
NonDraft(mail) == \A k \in 1..Len(mail.label_ids) : Upper(mail.label_ids[k]) # "DRAFT"
NonSelf(mail) == _normalized_address(mail.from_email) # OwnAddress

\* C4: in a run whose loaded cursor has timestamp T and id-set S, a loaded candidate
\* at T with id in S is ineligible, one before T is ineligible, and a non-draft
\* non-self one at T with id outside S, or after T, is eligible.
C4_EligibilityByCursor ==
    (pc \in {"process", "done"} /\ Loaded.last_internal_date_ms # None) =>
        LET T == Loaded.last_internal_date_ms[1]
            S == Range(Loaded.last_message_ids_at_latest_ts)
        IN \A k \in 1..Len(loaded_mails) :
               LET mail == loaded_mails[k]
                   elig == mail \in Range(eligible_mails)
               IN /\ (mail.internal_date_ms = T /\ mail.message_id \in S) => ~elig
                  /\ mail.internal_date_ms < T => ~elig
                  /\ (NonDraft(mail) /\ NonSelf(mail) /\ mail.internal_date_ms = T
                         /\ mail.message_id \notin S) => elig
                  /\ (NonDraft(mail) /\ NonSelf(mail) /\ mail.internal_date_ms > T) => elig

\* Two candidates tie with the cursor timestamp: the one in the id-set is dropped,
\* the other one is kept.
C4_Witness ==
    /\ pc = "process"
    /\ Loaded.last_internal_date_ms # None
    /\ \E a, b \in Range(loaded_mails) :
           /\ a.internal_date_ms = Loaded.last_internal_date_ms[1]
           /\ b.internal_date_ms = Loaded.last_internal_date_ms[1]
           /\ a.message_id \in Range(Loaded.last_message_ids_at_latest_ts)
           /\ b.message_id \notin Range(Loaded.last_message_ids_at_latest_ts)
           /\ a \notin Range(eligible_mails)
           /\ b \in Range(eligible_mails)

\* C5: the mails are handed to process_message in strictly ascending
\* (timestamp, id) order, whatever the listing order was; and when the run is done
\* and none of its eligible mails raised, the persisted timestamp is the largest
\* timestamp among them.
C5_ChronologicalProcessing ==
    /\ \A a, b \in 1..Len(attempted) : a < b => KeyLess(attempted[a], attempted[b])
    /\ attempted = SubSeq(eligible_mails, 1, index)
    /\ (pc = "done" /\ seen > 0 /\ CountIn(proc_log, {"raise"}) = 0) =>
           Persisted.last_internal_date_ms =
               Some(Max({eligible_mails[k].internal_date_ms : k \in 1..Len(eligible_mails)}))

\* The listing gave the newer message first; both were processed, oldest first.
C5_Witness ==
    /\ pc = "done"
    /\ Len(message_ids) = 2
    /\ processed = 2
    /\ Len(attempted) = 2
    /\ attempted[1].message_id = message_ids[2]
    /\ attempted[1].internal_date_ms < attempted[2].internal_date_ms
    /\ Persisted.last_internal_date_ms = Some(attempted[2].internal_date_ms)

\* C6: a run calls save_state at most once; until it has, the cursor file is the
\* one the run started with; and when it has, every eligible mail of the batch has
\* been attempted.
C6_SingleWriteAtEnd ==
    /\ writes <= 1
    /\ writes = 0 => file = file0
    /\ writes = 1 => (pc = "done" /\ Len(attempted) = Len(eligible_mails))
    /\ pc \in {"load_gmail_config", "connect", "get_profile", "list_messages",
               "load_messages", "filter", "process"} => file = file0

C6_Witness ==
    /\ pc = "done"
    /\ writes = 1
    /\ Len(attempted) = 2
    /\ file # file0

\* C7: when a set-up step (credentials, connect, own address, listing) raises, the
\* exception reaches the caller and the cursor file is the one the run started with.
C7_FatalErrorLeavesCursor ==
    /\ pc = "error" => (/\ result # None
                        /\ result[1].kind = "raised"
                        /\ result[1].at \in {"load_gmail_config", "connect", "get_profile",
                                             "list_messages"}
                        /\ file = file0
                        /\ writes = 0)
    /\ (result # None /\ result[1].kind = "raised") => pc = "error"

\* The listing raised in a run that started from an existing cursor.
C7_Witness ==
    /\ pc = "error"
    /\ result[1].at = "list_messages"
    /\ file # None
    /\ Persisted.last_message_ids_at_latest_ts # <<>>

ShouldBeProcessed ==
    {m \in Range(loaded_mails) :
         IsEligible(Loaded, Range(Loaded.last_message_ids_at_latest_ts), own_email, m)}

\* C9: a fetch that reports a missing message adds one to skipped_deleted and
\* nothing to errors; the load loop goes on to fetch every listed id, and every
\* loaded eligible mail is attempted by the end of the run.
C9_MissingMessageIsSkipped ==
    /\ skipped_deleted >= CountIn(load_log, {"not_found"})
    /\ errors = CountIn(load_log, {"other_error"})
                    + CountIn(proc_log, {"raise"})
    /\ CountIn(load_log, {"not_found"}) > 0 =>
           pc \in {"load_messages", "filter", "process", "done"}
    /\ pc \in {"filter", "process", "done"} => Len(load_log) = Len(message_ids)
    /\ pc = "done" => ShouldBeProcessed = Range(attempted)

C9_Witness ==
    /\ pc = "done"
    /\ Len(message_ids) = 2
    /\ load_log = <<"not_found", "ok">>
    /\ skipped_deleted = 1
    /\ errors = 0
    /\ processed = 1

\* C10: each process_message that raises adds exactly one to errors and the run
\* goes on: it is never aborted, every eligible mail is attempted, the cursor is
\* saved and a summary is returned.
C10_FailureDoesNotStopBatch ==
    /\ errors - CountIn(load_log, {"other_error"})
           = CountIn(proc_log, {"raise"})
    /\ CountIn(proc_log, {"raise"}) > 0 => pc \in {"process", "done"}
    /\ pc = "process" => ENABLED (ProcessMessage \/ SaveState)
    /\ pc = "done" => /\ Len(attempted) = Len(eligible_mails)
                      /\ writes = 1
                      /\ result # None
                      /\ result[1].kind = "summary"
                      /\ result[1].summary.errors = errors
                      /\ result[1].summary.processed + CountIn(proc_log, {"raise"})
                             = result[1].summary.message_ids_seen

C10_Witness ==
    /\ pc = "done"
    /\ proc_log = <<"raise", "ok">>
    /\ writes = 1
    /\ result[1].summary.errors = 1
    /\ result[1].summary.processed = 1

\* Where run_once is once the profile has been read.
PastProfile == {"list_messages", "load_messages", "filter", "process", "done"}

\* C11 (as claimed): no mail whose sender address, display name stripped and
\* case-folded, is the account's own address is ever handed to process_message.
C11_SelfMailNeverProcessed ==
    \A k \in 1..Len(attempted) : NonSelf(attempted[k])

\* C12: no mail that carries the DRAFT label is ever handed to process_message or
\* counted as eligible, whatever its timestamp and sender.
C12_DraftNeverProcessed ==
    /\ \A k \in 1..Len(attempted) : NonDraft(attempted[k])
    /\ pc \in {"process", "done"} =>
           /\ \A k \in 1..Len(eligible_mails) : NonDraft(eligible_mails[k])
           /\ seen <= Cardinality({k \in 1..Len(loaded_mails) : NonDraft(loaded_mails[k])})

\* A draft that is not self-sent and that the cursor test lets through was listed
\* and loaded next to an older ordinary message; only the ordinary one was processed.
C12_Witness ==
    /\ pc = "done"
    /\ Len(loaded_mails) = 2
    /\ Len(attempted) = 1
    /\ processed = 1
    /\ \E d \in Range(loaded_mails) :
           /\ ~NonDraft(d)
           /\ NonSelf(d)
           /\ d.internal_date_ms > attempted[1].internal_date_ms
           /\ IsEligible_keeps_drafts(Loaded, Range(Loaded.last_message_ids_at_latest_ts),
                                      own_email, d)

\* C13 (as claimed): when the profile yields no own address, the run is in the
\* error state, no mail has been handed to process_message and the cursor file is
\* the one the run started with.
C13_NoOwnAddressIsFatal ==
    (own_email = "" /\ pc \in PastProfile \cup {"error"}) =>
        /\ pc = "error"
        /\ attempted = <<>>
        /\ file = file0

SummaryFields ==
    {"processed", "skipped_deleted", "errors", "latest_internal_date_ms", "message_ids_seen"}

\* C20: a run that has its candidate listing reaches the end, whatever fetches and
\* whatever process_message calls fail on the way, and what it returns is a summary
\* with exactly the five fields, each count being the run's count.
C20_SummaryAlwaysReturned ==
    /\ (pc = "load_messages") ~> (pc = "done")
    /\ [](pc = "done" =>
             /\ result # None
             /\ result[1].kind = "summary"
             /\ DOMAIN result[1].summary = SummaryFields
             /\ result[1].summary = RunSummary
             /\ CountIn(load_log, {"ok"}) + skipped_deleted
                    + CountIn(load_log, {"other_error"}) = Len(message_ids))
    /\ [](pc \in {"load_messages", "filter", "process"} => result = None)

\* Of two listed candidates one could not be fetched and the other one raised in
\* process_message; the run still returned its summary.
C20_Witness ==
    /\ pc = "done"
    /\ load_log = <<"other_error", "ok">>
    /\ proc_log = <<"raise">>
    /\ result[1].summary.errors = 2
    /\ result[1].summary.processed = 0
    /\ result[1].summary.latest_internal_date_ms = None

\* The MailItem classify_email means to build for an email, and the sorted rules
\* whose predicate is true of it.
ItemOf(e) ==
    [id |-> "analysis-only", thread_id |-> None,
     headers |-> [Subject |-> e.subject, From |-> e.from_email], snippet |-> e.body_text]

Matches(name, e) ==
    \E k \in 1..Len(Rules) : Rules[k].name = name /\ match(Rules[k], ItemOf(e)).matched

CategoryOfRule(name) ==
    CASE name = "google_security_alert" -> "security"
      [] name = "newsletter" -> "newsletter"
      [] name = "job_application" -> "job_application"

\* C14 (as claimed): classify_email returns the result of the rule of highest
\* priority whose predicate is true of the message; a message the security rule
\* and the newsletter rule both match gets the security label and nothing else.
C14_FirstMatchWins ==
    (step \in {"analyzed", "raised"}) =>
        LET e == email[1]
            order == SortedByPriority(Rules)
            hits == {k \in 1..Len(order) : Matches(order[k].name, e)}
        IN /\ hits # {} =>
                  /\ analysis[1].kind = "returned"
                  /\ analysis[1].value[1].category =
                         CategoryOfRule(order[CHOOSE k \in hits : \A j \in hits : k <= j].name)
           /\ (Matches("google_security_alert", e) /\ Matches("newsletter", e)) =>
                  /\ analysis[1].kind = "returned"
                  /\ analysis[1].value[1].suggested_labels = <<Str("Security")>>

\* The analysis analyze_email builds from the result classify_email returns when no
\* rule matches (pipeline/orchestrator.py 20-28).
NoMatchAnalysis ==
    EmailAnalysis(NoMatchResult.category, NoMatchResult.labels, NoMatchResult.reason)

\* C15 (as claimed): for a message no rule matches, planning the result of the
\* classification gives exactly one action, an add_label that carries a label.
C15_FallbackLabel ==
    (step = "planned" /\ analysis[1].value[1] = NoMatchAnalysis) =>
        /\ Len(actions) = 1
        /\ actions[1].type = "add_label"
        /\ actions[1].label_name # None

\* The add_label actions of a planned list, and the labels of a list that have no
\* child in it.
AddLabels == SelectSeq(actions, LAMBDA a : a.type = "add_label")

Leaves(labels) ==
    {l \in Range(labels) :
         ~\E other \in Range(labels) : other # l /\ startswith(other, l \o <<"/">>)}

C17_AnalyzeApplication ==
    step = "planned" =>
        LET n == Len(actions)
            requests == {k \in 1..n : actions[k].type = "analyze_application"}
        IN IF analysis[1].value[1].category = "job_application"
           THEN /\ requests = {n}
                /\ n = Len(AddLabels) + 1
           ELSE /\ requests = {}
                /\ n = Len(AddLabels)

\* A job application without any suggested label: the analysis request is the
\* only action.
C17_Witness ==
    /\ step = "planned"
    /\ analysis[1].value[1].category = "job_application"
    /\ analysis[1].value[1].suggested_labels = <<>>
    /\ Len(actions) = 1
    /\ actions[1].type = "analyze_application"

\* The actions among the first n of the list that have a handler to be called.
Invokable(n) ==
    {k \in 1..n : actions[k].type \in executor.handlers /\ ~executor.dry_run}

\* C18: with continue_on_error, run never raises and calls the handler of every
\* action that has one, whatever the earlier handlers did; without it, run raises
\* with the first handler that raises and handles no action after it.
C18_FailureIsolation ==
    /\ executor.continue_on_error =>
           /\ step # "raised"
           /\ Len(handled) = Cardinality(Invokable(position))
           /\ step = "returned" => position = Len(actions)
    /\ ~executor.continue_on_error =>
           /\ \A k \in 1..(Len(handled) - 1) : ~handled[k].raised
           /\ step = "raised" <=> (handled # <<>> /\ handled[Len(handled)].raised)
           /\ step = "raised" =>
                  /\ handled[Len(handled)].action = actions[position]
                  /\ ~ENABLED ExecuteAction
           /\ step = "returned" => Len(handled) = Cardinality(Invokable(Len(actions)))

\* The first of three actions failed; the two after it were handled all the same
\* and run returned.
C18_Witness ==
    /\ executor.continue_on_error
    /\ step = "returned"
    /\ Len(handled) = 3
    /\ handled[1].raised
    /\ ~handled[3].raised
    /\ mailbox_calls # <<>>

\* C19: with dry_run, run calls no handler and no GmailClient call is made.
C19_DryRunChangesNothing ==
    executor.dry_run => (handled = <<>> /\ mailbox_calls = <<>>)

\* A dry run went through three actions that all have a handler, an add_label
\* with a label name among them.
C19_Witness ==
    /\ executor.dry_run
    /\ step = "returned"
    /\ position = 3
    /\ \A k \in 1..3 : actions[k].type \in executor.handlers
    /\ \E k \in 1..3 : actions[k].type = "add_label" /\ actions[k].label_name # None

\* --------------------------------------------------------------------------
AppStateFields ==
    {"last_history_time", "last_internal_date_ms", "last_message_ids_at_latest_ts", "runs"}

\* What load_state made of the file the store started with: the never-run state for
\* a missing file; the value of the legacy key in the current field when the file
\* has the legacy key and not the current one; every other field as it is in the
\* file.
LoadedAsWritten ==
    step = "loaded" =>
        IF file = None THEN st = DefaultAppState
        ELSE LET data == file[1] IN
             /\ ("last_history_TIME" \in DOMAIN data /\ "last_history_time" \notin DOMAIN data)
                    => st.last_history_time = data.last_history_TIME
             /\ st.last_internal_date_ms = Get(data, "last_internal_date_ms")
             /\ st.last_message_ids_at_latest_ts = Get(data, "last_message_ids_at_latest_ts")
             /\ st.runs = (IF "runs" \in DOMAIN data THEN data.runs ELSE 0)

\* What save_state wrote: the four current keys and no other.
SavedCurrentShape ==
    step \in {"saved", "reloaded"} =>
        /\ file # None
        /\ DOMAIN file[1] = AppStateFields
        /\ "last_history_TIME" \notin DOMAIN file[1]

\* C21 (as claimed): load_state maps a legacy-key file into the current field and
\* reads the other fields unchanged, a missing file gives the never-run state,
\* save_state writes only the current keys, and loading what was saved returns the
\* saved state.
C21_SaveThenLoadIsIdentity ==
    /\ LoadedAsWritten
    /\ SavedCurrentShape
    /\ step = "saved" => load_state(file) = st
    /\ step = "reloaded" => st = file[1]

\* C21 (amended): as claimed, except that loading what was saved returns the saved
\* state when the saved history token is not the empty string; an empty token is
\* read back as null, every other field still as saved.
C21_SaveThenLoadKeepsCursor ==
    /\ LoadedAsWritten
    /\ SavedCurrentShape
    /\ step = "saved" =>
           IF st.last_history_time # Some("") THEN load_state(file) = st
           ELSE load_state(file) = [st EXCEPT !.last_history_time = None]
    /\ step = "reloaded" =>
           IF file[1].last_history_time # Some("") THEN st = file[1]
           ELSE st = [file[1] EXCEPT !.last_history_time = None]

\* A legacy file (legacy key with a token, no id-set) was loaded, the run advanced
\* the cursor and saved, and the reload gave the token under the current key.
C21_Witness ==
    /\ step = "reloaded"
    /\ file0 # None
    /\ DOMAIN file0[1] = {"last_history_TIME", "last_internal_date_ms", "runs"}
    /\ file0[1].last_history_TIME = Some("h1")
    /\ st.last_history_time = Some("h1")
    /\ st.last_message_ids_at_latest_ts # <<>>
    /\ st.runs = file0[1].runs + 1

\* C22: over any sequence of runs the persisted run counter never decreases; the
\* step that saves the cursor adds exactly one to it and no other step changes it,
\* so a completed run leaves it one above what the run loaded and an aborted run
\* leaves it as loaded.
C22_RunCounterMonotone ==
    /\ [][/\ load_state(file').runs >= load_state(file).runs
          /\ IF writes' > writes
             THEN load_state(file').runs = load_state(file).runs + 1
             ELSE load_state(file').runs = load_state(file).runs]_vars
    /\ [](pc = "done" => Persisted.runs = Loaded.runs + 1)
    /\ [](pc = "error" => Persisted.runs = Loaded.runs)

\* Three runs started from no cursor file; one of them was aborted, the last one
\* completed without processing anything: the counter is 2.
C22_Witness ==
    /\ pc = "done"
    /\ started = 3
    /\ processed = 0
    /\ Persisted.last_history_time = None
    /\ Persisted.runs = 2

\* What a trimmed subject begins with when it has a reply prefix: the word re, aw
\* or sv in any letter case, whitespace or none, a colon; and what follows it.
HasReplyPrefix(cleaned) ==
    /\ cleaned # <<>>
    /\ Lower(Head(cleaned)) \in {"re", "aw", "sv"}
    /\ lstrip(Tail(cleaned)) # <<>>
    /\ Head(lstrip(Tail(cleaned))) = ":"

AfterReplyPrefix(cleaned) == lstrip(Tail(lstrip(Tail(cleaned))))

\* The subject proper: the trimmed subject without its reply prefix, if it has one.
SubjectProper(s) ==
    LET cleaned == strip(s)
    IN IF HasReplyPrefix(cleaned) THEN AfterReplyPrefix(cleaned) ELSE cleaned

\* The answer promised for a subject.
ExpectedReply(s) ==
    IF SubjectProper(s) = <<>> THEN DefaultReplySubject ELSE RePrefix \o SubjectProper(s)

C24_FailedActionNotCounted ==
    /\ processed = CountIn(proc_log, {"ok"})
    /\ pc = "done" =>
           /\ \A k \in 1..Len(proc_log) :
                  proc_log[k] = "action_failed" =>
                      eligible_mails[k].message_id
                          \notin Range(Persisted.last_message_ids_at_latest_ts)
           /\ CountIn(proc_log, {"ok"}) = 0 =>
                  Persisted.last_internal_date_ms = Loaded.last_internal_date_ms

\* C25 (as claimed): every action failure the executor caught has added one to the
\* run's error counter, so errors is at least the number of messages with a failed
\* action, in the run and in its summary.
C25_ActionFailureCounted ==
    /\ errors >= CountIn(proc_log, {"action_failed"})
    /\ pc = "done" => result[1].summary.errors >= CountIn(proc_log, {"action_failed"})

\* The ids of the mails of this run at timestamp t whose process_message outcome
\* is one of the given ones.
IdsAt(t, outcomes) ==
    {eligible_mails[k].message_id :
         k \in {j \in 1..Len(proc_log) :
                    proc_log[j] \in outcomes /\ eligible_mails[j].internal_date_ms = t}}

\* C26 (as claimed): when a run has persisted a timestamp greater than the one it
\* loaded, the persisted id-set is exactly the set of the ids processed in this run
\* at the new timestamp with every action applied, and holds no id of the loaded
\* id-set.
C26_IdSetReplacedOnAdvance ==
    (/\ pc = "done"
     /\ Loaded.last_internal_date_ms # None
     /\ Persisted.last_internal_date_ms # None
     /\ Persisted.last_internal_date_ms[1] > Loaded.last_internal_date_ms[1]) =>
        /\ Range(Persisted.last_message_ids_at_latest_ts)
               = IdsAt(Persisted.last_internal_date_ms[1], {"ok"})
        /\ Range(Persisted.last_message_ids_at_latest_ts)
               \cap Range(Loaded.last_message_ids_at_latest_ts) = {}

\* The run has its listing and has fetched nothing yet: the mailbox is the one the
\* listing saw.
JustListed == pc = "load_messages" /\ fetched_idx = 0 /\ query # None

\* C27 (as claimed): a run that starts from a legacy cursor (timestamp T, empty
\* id-set) issues the incremental query for floor((T + 1000) / 1000) seconds, and
\* its listing holds every message in the mailbox that is no draft, not self-sent,
\* not yet processed and has a timestamp of T or later.
C27_LegacyOffsetMissesNothing ==
    (/\ JustListed
     /\ Loaded.last_internal_date_ms # None
     /\ Loaded.last_message_ids_at_latest_ts = <<>>) =>
        LET T == Loaded.last_internal_date_ms[1] IN
        /\ query[1].kind = "after"
        /\ query[1].epoch_seconds = (T + 1000) \div 1000
        /\ \A m \in Present :
               (/\ mailbox[m][1].internalDate >= T
                /\ ~IsDraftRaw(mailbox[m][1])
                /\ ~IsFromMeRaw(mailbox[m][1])
                /\ times_processed[m] = 0) => m \in Range(message_ids)

\* C28 (as claimed): the run issues the bootstrap query (newer than N days, drafts
\* and self-sent excluded) exactly when the loaded cursor timestamp is null, and
\* otherwise the incremental query from floor(timestamp / 1000) seconds, never
\* negative, with the same exclusions.
C28_QueryByCursor ==
    query # None =>
        /\ query[1].kind = "newer_than" <=> Loaded.last_internal_date_ms = None
        /\ query[1].terms = {"-in:drafts", "-from:me"}
        /\ IF Loaded.last_internal_date_ms = None
           THEN query[1].days = bootstrap_days
           ELSE /\ query[1].kind = "after"
                /\ query[1].epoch_seconds >= 0
                /\ query[1].epoch_seconds = Loaded.last_internal_date_ms[1] \div 1000

\* C28 (amended): as claimed, except that the incremental query starts from
\* floor(timestamp / 1000) seconds when the loaded cursor has an id-set and from
\* floor((timestamp + 1000) / 1000) seconds when it has none (a legacy cursor).
C28_QueryByCursorAndIdSet ==
    query # None =>
        /\ query[1].kind = "newer_than" <=> Loaded.last_internal_date_ms = None
        /\ query[1].terms = {"-in:drafts", "-from:me"}
        /\ IF Loaded.last_internal_date_ms = None
           THEN query[1].days = bootstrap_days
           ELSE /\ query[1].kind = "after"
                /\ query[1].epoch_seconds >= 0
                /\ query[1].epoch_seconds =
                       IF Loaded.last_message_ids_at_latest_ts # <<>>
                       THEN Loaded.last_internal_date_ms[1] \div 1000
                       ELSE (Loaded.last_internal_date_ms[1] + 1000) \div 1000

\* A cursor at 1500 ms with an id-set: the listing was asked from second 1.
C28_Witness ==
    /\ JustListed
    /\ Loaded.last_internal_date_ms = Some(1500)
    /\ Loaded.last_message_ids_at_latest_ts # <<>>
    /\ query[1].kind = "after"
    /\ query[1].epoch_seconds = 1

\* C29: no mail is handed to process_message, and the eligibility filter is not
\* applied, before a fetch has been attempted for every listed id; the filter is
\* applied to the whole batch of loaded mails in ascending (timestamp, id) order.
C29_LoadAllThenFilter ==
    /\ pc \in {"load_messages", "filter"} =>
           (attempted = <<>> /\ eligible_mails = <<>>)
    /\ (attempted # <<>> \/ pc \in {"process", "done"}) =>
           /\ Len(load_log) = Len(message_ids)
           /\ fetched_idx = Len(message_ids)
           /\ {loaded_mails[k].message_id : k \in 1..Len(loaded_mails)}
                  = {message_ids[k] : k \in {j \in 1..Len(message_ids) : load_log[j] = "ok"}}
           /\ \A a, b \in 1..Len(loaded_mails) :
                  a < b => KeyLess(loaded_mails[a], loaded_mails[b])
           /\ LET Keep(mail) == IsEligible(Loaded, Range(Loaded.last_message_ids_at_latest_ts),
                                           own_email, mail)
              IN eligible_mails = SelectSeq(loaded_mails, Keep)

\* Two candidates were listed newest first; both were fetched before the first
\* mail was processed, the batch is in timestamp order and the filter dropped one.
C29_Witness ==
    /\ pc = "process"
    /\ index = 1
    /\ Len(message_ids) = 2
    /\ Len(loaded_mails) = 2
    /\ loaded_mails[2].message_id = message_ids[1]
    /\ loaded_mails[1].internal_date_ms < loaded_mails[2].internal_date_ms
    /\ Len(eligible_mails) = 1

\* C30 (as claimed): when the executor the run builds, default_executor(dry_run =
\* False), has gone through a message's action list, every analyze_application
\* action of the list has been handed to a handler.
C30_AnalysisRequestExecuted ==
    (step = "returned" /\ executor = default_executor(FALSE)) =>
        \A k \in 1..Len(actions) :
            actions[k].type = "analyze_application" =>
                \E j \in 1..Len(handled) : handled[j].action = actions[k]

\* C31 (as claimed): for every subject, sender and body, the empty ones included,
\* analyze_email comes back with a classification; it never raises.
C31_ClassificationTotal ==
    step # "analyze_email" =>
        /\ step = "analyzed"
        /\ analysis # None
        /\ analysis[1].kind = "returned"
        /\ analysis[1].value[1].category \in Categories

\* C36 (as claimed): skipped_deleted counts exactly the fetches that reported a
\* missing message; a candidate whose normalization fails in any other way, a
\* malformed payload included, adds one to errors instead.
C36_SkippedOnlyWhenMissing ==
    /\ skipped_deleted = CountIn(load_log, {"not_found"})
    /\ errors = CountIn(load_log, {"malformed_key", "other_error"})
                    + CountIn(proc_log, {"raise"})

\* C38: across any sequence of runs, once the persisted cursor timestamp is
\* non-null no step makes it null again or smaller; a completed run leaves it at
\* least where the run found it, and an aborted run leaves it as found.
C38_CursorNeverGoesBack ==
    /\ [][Persisted.last_internal_date_ms # None =>
              /\ Persisted'.last_internal_date_ms # None
              /\ Persisted'.last_internal_date_ms[1] >= Persisted.last_internal_date_ms[1]]_vars
    /\ [](pc \in {"done", "error"} /\ Loaded.last_internal_date_ms # None =>
              /\ Persisted.last_internal_date_ms # None
              /\ Persisted.last_internal_date_ms[1] >= Loaded.last_internal_date_ms[1])

\* A later run loaded the cursor 1500, fetched a message of 1000 listed with it
\* (same second) and completed: the cursor on disk is still 1500.
C38_Witness ==
    /\ pc = "done"
    /\ started >= 2
    /\ Loaded.last_internal_date_ms = Some(1500)
    /\ Persisted.last_internal_date_ms = Some(1500)
    /\ \E m \in Range(loaded_mails) :
           m.internal_date_ms = 1000 /\ NonDraft(m) /\ NonSelf(m)

\* The errors a run has counted while loading, and those counted while processing.
LoadErrors == CountIn(load_log, {"other_error"})
ProcessErrors(summary) == summary.errors - LoadErrors

\* C39: the summary of a completed run is consistent: processed plus the errors of
\* per-message processing is message_ids_seen; message_ids_seen plus
\* skipped_deleted plus the errors of loading is at most the number of listed
\* candidates; latest_internal_date_ms is null exactly when processed is 0.
C39_SummaryCountsConsistent ==
    pc = "done" =>
        LET summary == result[1].summary IN
        /\ ProcessErrors(summary) >= 0
        /\ summary.processed + ProcessErrors(summary) = summary.message_ids_seen
        /\ summary.message_ids_seen + summary.skipped_deleted + LoadErrors
               <= Len(message_ids)
        /\ (summary.latest_internal_date_ms = None) <=> (summary.processed = 0)

\* Two candidates were listed and fetched; one raised in process_message, the
\* other one was processed.
C39_Witness ==
    /\ pc = "done"
    /\ Len(message_ids) = 2
    /\ result[1].summary.message_ids_seen = 2
    /\ result[1].summary.processed = 1
    /\ result[1].summary.errors = 1
    /\ result[1].summary.latest_internal_date_ms # None

RECURSIVE LeavesOf(_)
RECURSIVE LeavesFrom(_, _)

\* The leaves of a multipart tree in depth-first order.
LeavesFrom(children, k) ==
    IF k > Len(children) THEN <<>> ELSE LeavesOf(children[k]) \o LeavesFrom(children, k + 1)

LeavesOf(part) == IF part.parts = <<>> THEN <<part>> ELSE LeavesFrom(part.parts, 1)

\* The leaves of a type that carry content, in depth-first order.
ContentLeaves(p, mime_type) ==
    SelectSeq(LeavesOf(p), LAMBDA leaf : leaf.mimeType = mime_type /\ HasData(leaf))

\* C35 (as claimed): extract_body_from_payload raises for no payload, and returns
\* the decoded content of the first text/plain leaf of the depth-first search when
\* there is one, otherwise that of the first text/html leaf, otherwise "".
C35_PlainThenHtmlThenEmpty ==
    body # None =>
        LET plain == ContentLeaves(payload[1], "text/plain")
            html == ContentLeaves(payload[1], "text/html")
        IN /\ body[1].kind = "returned"
           /\ body[1] = IF plain # <<>> THEN decode(plain[1].data[1])
                        ELSE IF html # <<>> THEN decode(html[1].data[1])
                        ELSE Returned("")

\* The ids the resolutions of a name have returned since the last connect().
ResolvedIds(label_name) ==
    {resolved[k].outcome.value[1] :
         k \in {j \in 1..Len(resolved) : /\ resolved[j].name = label_name
                                         /\ resolved[j].outcome.kind = "returned"}}

\* C33: on one connection a label name is created at the provider at most once
\* and every resolution of it returns the same id, whatever happens to the label
\* at the provider meanwhile; connect() leaves the cache empty, and every id a
\* resolution returns was sent by the provider since the last connect().
C33_LabelResolvedOncePerConnection ==
    /\ [](\A n \in UserLabels :
              /\ Cardinality({k \in 1..Len(created) : created[k] = n}) <= 1
              /\ Cardinality(ResolvedIds(n)) <= 1
              /\ \A id \in ResolvedIds(n) : <<n, id>> \in obtained)
    /\ [][connects' > connects => IsEmptyCache(_label_cache')]_vars

\* On the second connection a name was created, deleted at the provider by
\* someone else, and resolved again: the same id came back and nothing was created
\* a second time.
C33_Witness ==
    /\ connects = 2
    /\ created = <<"Misc">>
    /\ provider_labels["Misc"] = None
    /\ Len(resolved) = 2
    /\ resolved[1] = [name |-> "Misc", outcome |-> Returned(2)]
    /\ resolved[2] = resolved[1]

\* A step that creates a provider draft for a file, and one that writes its marker.
DraftCreatedFor(f) == provider_drafts'[f] > provider_drafts[f]
MarkerWrittenFor(f) == f \in markers' \ markers

\* A marker is written only by an invocation that is no dry run, in the step that
\* created the draft; a dry-run invocation creates no draft and writes no marker.
MarkerOnlyAfterRealDraft ==
    /\ \A f \in Files : MarkerWrittenFor(f) =>
           /\ invocation # None
           /\ ~invocation[1].dry_run
           /\ DraftCreatedFor(f)
    /\ (invocation # None /\ invocation[1].dry_run) =>
           /\ markers' = markers
           /\ provider_drafts' = provider_drafts

BetweenLoadAndSave == {r \in Runs : thread[r] \in {"running"} \cup Pushing}

\* C32 (as claimed): of the runs started through POST /run at most one is between
\* loading and persisting the cursor at any time, and no run's cursor update is
\* overwritten by another run's: every completed save is counted in the run
\* counter on disk.
C32_OneRunAtATime ==
    /\ Cardinality(BetweenLoadAndSave) <= 1
    /\ Persisted.runs = saves

\* A list holds its entries newest first: the numbers, given in pushing order, fall.
NewestFirst(list) == \A k \in 1..(Len(list) - 1) : list[k] > list[k + 1]

\* C37: in every reachable state of the status store recent_actions and
\* recent_errors hold at most 50 entries each, newest first, whatever progress
\* events and draft-creation events have been pushed.
C37_RecentListsBounded ==
    /\ Len(recent_actions) <= 50
    /\ Len(recent_errors) <= 50
    /\ NewestFirst(recent_actions)
    /\ NewestFirst(recent_errors)

\* Three entries were pushed to a recent_actions that held 49, the last one by
\* the draft request: the list is full and the two oldest entries have left it.
C37_Witness ==
    /\ Len(recent_actions) = 50
    /\ recent_actions[1] = RecentCap + 3
    /\ recent_actions[50] = 3
    /\ thread["drafts"] = "drafts"
    /\ \A x \in pushed : x.n > RecentCap => x.list = "recent_actions"

\* The entries of a list, and those pushed to it after entry n.
EntriesOf(list) == IF list = "recent_actions" THEN Range(recent_actions)
                   ELSE Range(recent_errors)
NewerThan(x) == {y \in pushed : y.list = x.list /\ y.n > x.n}

\* C40 (as claimed): under any interleaving of the progress callbacks of a run
\* with a draft-creation request or a second run no pushed entry is lost: an entry
\* stays in its list until 50 newer entries have displaced it.
C40_NoPushedEntryLost ==
    \A x \in pushed : x.n \in EntriesOf(x.list) \/ Cardinality(NewerThan(x)) >= 50
====
